---- MODULE Spec2Model ----
(***************************************************************************)
(* State-machine model of the SentinelAI policy evaluation core:           *)
(* the regex cache of KeywordFilterEvaluator, the two evaluators, the      *)
(* EvaluatorRegistry, the `evaluate` CLI handler and the guard pipeline.   *)
(*                                                                         *)
(* Text is modelled as a sequence of one-character strings.  A number with *)
(* a fractional part is modelled exactly, as a fraction [n, d] or in       *)
(* tenths.                                                                 *)
(***************************************************************************)
EXTENDS Integers, Sequences, FiniteSets, TLC

VARIABLES
    build,          \* "debug" | "release": whether integer overflow panics or wraps
    evaluators,     \* EvaluatorRegistry.evaluators
    regex_cache,    \* KeywordFilterEvaluator.regex_cache of the registry's instance
    reg_call,       \* the last EvaluatorRegistry::evaluate call (its arguments)
    reg_invoked,    \* indexes of the evaluators that call invoked, in order
    reg_result,     \* what that call returned
    reg_calls,      \* evaluate calls made
    \* an evaluator called directly
    ev_call,        \* the last Evaluator::evaluate call (its arguments)
    ev_result,      \* what that call returned
    ev_calls,       \* evaluate calls made
    \* concurrent callers of get_or_compile_regex on the shared instance
    rc_pc,          \* per caller: "idle" | "get" | "compile" | "insert"
    rc_args,        \* per caller: the call's pattern, case_sensitive and cache_key
    rc_regex,       \* per caller: the local `regex` after Regex::new
    rc_ret,         \* per caller: what its last call returned
    rc_compiles,    \* per cache key: the Regex::new calls made for it
    rc_done,        \* per cache key: the calls that have returned
    rc_calls,       \* calls started
    \* cli/evaluate.rs: one run of handle_evaluate
    he_pc,          \* "init" | "keyword" | "performance" | "output" | "done"
    he_args,        \* EvaluateArgs
    he_results,     \* the local `results`
    he_outcomes,    \* what each evaluator call returned, in call order
    he_elapsed,     \* milliseconds since start_time
    he_late,        \* evaluator calls started with the timeout already exceeded
    he_ret,         \* what handle_evaluate returned, with what it printed
    \* cli/guard.rs and the proxy it starts: one request through the guard
    g_cmd,          \* the GuardCommand executed
    g_server,       \* the arguments start_server was given, and the timeout
    g_state,        \* the request's state
    g_request,      \* the chat-completion request received
    g_content,      \* the content under evaluation (inbound, then outbound)
    g_active,       \* the active policy set resolved for the request
    g_idx,          \* the next policy of g_active to evaluate
    g_results,      \* the results accumulated for g_content
    g_calls,        \* EvaluatorRegistry::evaluate calls made for g_content
    g_inbound,      \* the inbound decision, once made
    g_decision,     \* the last decision made, with the results it was made from
    g_upstream,     \* calls made to the upstream provider
    g_elapsed,      \* milliseconds since the request was received
    g_outcome,      \* "none", or how the request ended
    g_response,     \* what the caller is returned
    g_log,          \* findings recorded and not returned
    g_store,        \* the Policy Store: its policies, and when each update was made
    \* requests served concurrently over one EvaluatorRegistry
    rq,             \* per request: its content, policy list, position and results
    \* the active policy set on its own
    rv,             \* a guard command, a store, and the active set resolved
    \* serde: a PolicyResult through JSON
    trip,           \* a PolicyResult, its JSON, and what the JSON is read back as
    \* cache keys: get_or_compile_regex called with patterns that hold ':'
    key_call        \* the last call: its pattern, its flag and what it returned

regVars == <<evaluators, reg_call, reg_invoked, reg_result, reg_calls>>
evVars == <<ev_call, ev_result, ev_calls>>
rcVars == <<rc_pc, rc_args, rc_regex, rc_ret, rc_compiles, rc_done, rc_calls>>
heVars == <<he_pc, he_args, he_results, he_outcomes, he_elapsed, he_late, he_ret>>
gVars == <<g_cmd, g_server, g_state, g_request, g_content, g_active, g_idx, g_results,
           g_calls, g_inbound, g_decision, g_upstream, g_elapsed, g_outcome,
           g_response, g_log, g_store>>

-----------------------------------------------------------------------------
(* Bounds of the model *)

MaxRegistered == 2      \* register calls after EvaluatorRegistry::new
MaxEvalCalls == 2       \* EvaluatorRegistry::evaluate calls in one run
NumCallers == 2         \* concurrent callers of the regex cache
MaxCalls == 3           \* get_or_compile_regex calls in one run

-----------------------------------------------------------------------------
(* Result<T, Error> and Option<T> *)

Ok(v) == [ok |-> TRUE, val |-> v]
Err(kind, msg) == [ok |-> FALSE, err |-> [kind |-> kind, msg |-> msg]]
IsPanic(r) == ~r.ok /\ r.err.kind = "Panic"

Some(v) == [some |-> TRUE, val |-> v]
None == [some |-> FALSE, val |-> 0]
\* None of an Option<String>
NoText == [some |-> FALSE, val |-> <<>>]

\* A u32 is kept as its two 16-bit halves, so that every value of the type
\* has a representation.
Half == 65536
U32(hi, lo) == [hi |-> hi, lo |-> lo]
ToU32(n) == U32((n \div Half) % Half, n % Half)
U32Max == U32(Half - 1, Half - 1)
U32Greater(a, b) == a.hi > b.hi \/ (a.hi = b.hi /\ a.lo > b.lo)
\* a * 2 in 32 bits: whether it overflows, and the wrapped product
U32Double(a) ==
    LET lo == a.lo * 2
        hi == a.hi * 2 + lo \div Half
    IN  [overflow |-> hi >= Half, val |-> U32(hi % Half, lo % Half)]
\* None of an Option<u32>
NoU32 == [some |-> FALSE, val |-> U32(0, 0)]

-----------------------------------------------------------------------------
(* models.rs *)

PolicyType == {"KeywordFilter", "Performance", "ContentSafety", "Semantic"}
ViolationAction == {"Block", "Warn", "Log"}
ViolationSeverity == {"Low", "Medium", "High", "Critical"}

Pass == [tag |-> "Pass"]
Violation(severity, message, confidence, details) ==
    [tag |-> "Violation", severity |-> severity, message |-> message,
     confidence |-> confidence, details |-> details]

\* EvaluationResult; id (a fresh uuid) and timestamp (the clock) are left out.
EvaluationResult(request, policy, policy_type, result, execution_time_ms) ==
    [request_id |-> request.id, policy_id |-> policy.id,
     policy_name |-> policy.name, policy_type |-> policy_type,
     result |-> result, execution_time_ms |-> execution_time_ms]

KeywordFilterConfig(patterns, case_sensitive, action) ==
    [variant |-> "KeywordFilter", patterns |-> patterns,
     case_sensitive |-> case_sensitive, action |-> action]
\* min_quality_score is in tenths
PerformanceConfig(max_response_time_ms, min_quality_score, max_tokens, action) ==
    [variant |-> "Performance", max_response_time_ms |-> max_response_time_ms,
     min_quality_score |-> min_quality_score, max_tokens |-> max_tokens,
     action |-> action]
ContentSafetyConfig(action) == [variant |-> "ContentSafety", action |-> action]
SemanticConfig(action) == [variant |-> "Semantic", action |-> action]

Policy(id, policy_type, config, enabled) ==
    [id |-> id, name |-> id, policy_type |-> policy_type, config |-> config,
     enabled |-> enabled, organization_id |-> "org"]

-----------------------------------------------------------------------------
(* The regex crate, for the patterns of the model: a pattern is a literal, *)
(* optionally behind the flag group (?i) and optionally ending in a        *)
(* counted repetition {n} of its last character; a parenthesis that is not *)
(* part of a flag group is a group that is never closed, which does not    *)
(* compile, and so does a brace that is not part of a final repetition.    *)

CaseInsensitiveFlag == <<"(", "?", "i", ")">>

HasFlagPrefix(s) == Len(s) >= 4 /\ SubSeq(s, 1, 4) = CaseInsensitiveFlag

\* The compiled program of the crate may take 10 MiB by default; the model
\* measures a program by the characters it matches and scales the limit to
\* its patterns.
SizeLimit == 5

DigitValue(c) == CASE c = "2" -> 2 [] c = "9" -> 9 [] OTHER -> 0

\* the pattern ends in x{n}
HasRepetition(s) ==
    /\ Len(s) >= 4
    /\ s[Len(s) - 2] = "{" /\ s[Len(s)] = "}"
    /\ DigitValue(s[Len(s) - 1]) > 0
    /\ s[Len(s) - 3] \notin {"{", "}"}

\* the literal that x{n} at the end of s stands for
Expand(s) ==
    LET head == SubSeq(s, 1, Len(s) - 3)
        n == DigitValue(s[Len(s) - 1])
    IN  head \o [i \in 1..(n - 1) |-> head[Len(head)]]

RECURSIVE ParseRegex(_, _)
ParseRegex(s, ci) ==
    IF HasFlagPrefix(s) THEN ParseRegex(SubSeq(s, 5, Len(s)), TRUE)
    ELSE IF \E i \in 1..Len(s) : s[i] \in {"(", ")", "?"}
         THEN [ok |-> FALSE, why |-> "Syntax"]
    ELSE IF HasRepetition(s)
         THEN (IF \E i \in 1..(Len(s) - 3) : s[i] \in {"{", "}"}
               THEN [ok |-> FALSE, why |-> "Syntax"]
               ELSE IF Len(Expand(s)) > SizeLimit
               THEN [ok |-> FALSE, why |-> "CompiledTooBig"]
               ELSE [ok |-> TRUE, val |-> [ci |-> ci, lit |-> Expand(s)]])
    ELSE IF \E i \in 1..Len(s) : s[i] \in {"{", "}"}
         THEN [ok |-> FALSE, why |-> "Syntax"]
         ELSE [ok |-> TRUE, val |-> [ci |-> ci, lit |-> s]]

\* Regex::new(src): the compiled pattern or, through From<regex::Error>,
\* Error::Regex.  regex::Error::Syntax displays the parse error with src in
\* it; regex::Error::CompiledTooBig displays the size limit only.
FromRegexError(src, p) ==
    IF p.ok THEN Ok(p.val)
    ELSE IF p.why = "Syntax" THEN Err("Regex", src)
    ELSE Err("Regex", <<"Compiled regex exceeds size limit">>)

RegexNew(src) == FromRegexError(src, ParseRegex(src, FALSE))

FoldCase(c) == IF c = "A" THEN "a" ELSE IF c = "B" THEN "b" ELSE c

MatchAt(regex, content, i) ==
    /\ i + Len(regex.lit) - 1 <= Len(content)
    /\ \A j \in 1..Len(regex.lit) :
          IF regex.ci THEN FoldCase(regex.lit[j]) = FoldCase(content[i + j - 1])
                      ELSE regex.lit[j] = content[i + j - 1]

\* regex.captures(content): the leftmost match's text, if any
Captures(regex, content) ==
    LET at == {i \in 1..(Len(content) + 1) : MatchAt(regex, content, i)}
    IN  IF at = {} THEN None
        ELSE LET i == CHOOSE k \in at : \A m \in at : k <= m
             IN  Some(SubSeq(content, i, i + Len(regex.lit) - 1))

-----------------------------------------------------------------------------
(* keyword_filter.rs: the regex cache.  The DashMap is a set of            *)
(* [key, regex] entries.                                                   *)

BoolText(b) == IF b THEN <<"t", "r", "u", "e">> ELSE <<"f", "a", "l", "s", "e">>

CacheKeyOfPattern(pattern, case_sensitive) == pattern \o <<":">>

\* a key that names the flag only when it is false
CacheKeyFlagWhenFalse(pattern, case_sensitive) ==
    IF case_sensitive THEN pattern ELSE pattern \o <<":">> \o BoolText(FALSE)

\* format!("{}:{}", pattern, case_sensitive)
CacheKey(pattern, case_sensitive) == pattern \o <<":">> \o BoolText(case_sensitive)

\* a lookup that takes whatever entry the map holds
CacheGetAny(cache, key) ==
    IF cache # {} THEN Some((CHOOSE e \in cache : TRUE).regex) ELSE None

\* regex_cache.get(&cache_key)
CacheGet(cache, key) ==
    IF \E e \in cache : e.key = key
    THEN Some((CHOOSE e \in cache : e.key = key).regex)
    ELSE None

PatternAsGiven(pattern, case_sensitive) == pattern

\* the pattern handed to Regex::new
RegexPattern(pattern, case_sensitive) ==
    IF case_sensitive THEN pattern ELSE CaseInsensitiveFlag \o pattern

InsertNothing(cache, key, regex) == cache

\* an insert into a map that keeps one entry
InsertEvicting(cache, key, regex) == {[key |-> key, regex |-> regex]}

\* regex_cache.insert(cache_key, regex): replaces the key's entry
CacheInsert(cache, key, regex) ==
    {e \in cache : e.key # key} \cup {[key |-> key, regex |-> regex]}

\* lines 38 to 40, with what Regex::new answered: `?` returns the error,
\* else the regex is inserted and returned
CompileMiss(cache, cache_key, regex) ==
    IF ~regex.ok
    THEN [res |-> regex, cache |-> cache, compiled |-> TRUE]
    ELSE [res |-> regex, cache |-> CacheInsert(cache, cache_key, regex.val),
          compiled |-> TRUE]

\* lines 28 to 30, with what regex_cache.get answered
CacheLookup(cache, cache_key, hit, pattern, case_sensitive) ==
    IF hit.some
    THEN [res |-> Ok(hit.val), cache |-> cache, compiled |-> FALSE]
    ELSE CompileMiss(cache, cache_key,
                     RegexNew(RegexPattern(pattern, case_sensitive)))

\* get_or_compile_regex run without interruption; compiled says whether
\* Regex::new was called
GetOrCompileRegex(cache, pattern, case_sensitive) ==
    CacheLookup(cache, CacheKey(pattern, case_sensitive),
                CacheGet(cache, CacheKey(pattern, case_sensitive)),
                pattern, case_sensitive)

-----------------------------------------------------------------------------
(* keyword_filter.rs: KeywordFilterEvaluator::evaluate *)

\* the loop that stops at the first match
RECURSIVE KeywordLoopFirstMatch(_, _, _, _, _)
KeywordLoopFirstMatch(cache, content, config, i, violations) ==
    IF i > Len(config.patterns) \/ violations # <<>>
    THEN [res |-> Ok(violations), cache |-> cache]
    ELSE LET pattern == config.patterns[i]
             g == GetOrCompileRegex(cache, pattern, config.case_sensitive)
         IN  IF ~g.res.ok
             THEN [res |-> g.res, cache |-> g.cache]
             ELSE LET captures == Captures(g.res.val, content)
                  IN  KeywordLoopFirstMatch(g.cache, content, config, i + 1,
                        IF captures.some
                        THEN Append(violations,
                                    [pattern |-> pattern, matched |-> captures.val])
                        ELSE violations)

\* the loop that leaves out a pattern that does not compile
RECURSIVE KeywordLoopSkipping(_, _, _, _, _)
KeywordLoopSkipping(cache, content, config, i, violations) ==
    IF i > Len(config.patterns)
    THEN [res |-> Ok(violations), cache |-> cache]
    ELSE LET pattern == config.patterns[i]
             g == GetOrCompileRegex(cache, pattern, config.case_sensitive)
         IN  IF ~g.res.ok
             THEN KeywordLoopSkipping(g.cache, content, config, i + 1, violations)
             ELSE LET captures == Captures(g.res.val, content)
                  IN  KeywordLoopSkipping(g.cache, content, config, i + 1,
                        IF captures.some
                        THEN Append(violations,
                                    [pattern |-> pattern, matched |-> captures.val])
                        ELSE violations)

\* the loop over config.patterns, from pattern i on
RECURSIVE KeywordLoop(_, _, _, _, _)
KeywordLoop(cache, content, config, i, violations) ==
    IF i > Len(config.patterns)
    THEN [res |-> Ok(violations), cache |-> cache]
    ELSE LET pattern == config.patterns[i]
             g == GetOrCompileRegex(cache, pattern, config.case_sensitive)
         IN  IF ~g.res.ok
             THEN [res |-> g.res, cache |-> g.cache]
             ELSE LET captures == Captures(g.res.val, content)
                  IN  KeywordLoop(g.cache, content, config, i + 1,
                        IF captures.some
                        THEN Append(violations,
                                    [pattern |-> pattern, matched |-> captures.val])
                        ELSE violations)

\* the violations as the PolicyResult of the evaluation
KeywordPolicyResult(config, violations) ==
    IF violations = <<>> THEN Pass
    ELSE Violation("Medium", violations, 10,
                   [violations |-> violations,
                    patterns_checked |-> Len(config.patterns),
                    case_sensitive |-> config.case_sensitive])

\* lines 67 to 93, with what the loop answered: its error, or the result
KeywordResult(request, policy, execution_time, loop) ==
    IF ~loop.res.ok THEN loop
    ELSE [res |-> Ok(EvaluationResult(request, policy, "KeywordFilter",
                       KeywordPolicyResult(policy.config, loop.res.val),
                       execution_time)),
          cache |-> loop.cache]

\* an evaluation that reads a config of another variant as no patterns
KeywordFilterEvaluateLenient(cache, request, policy, execution_time) ==
    [res |-> Ok(EvaluationResult(request, policy, "KeywordFilter", Pass,
                                 execution_time)),
     cache |-> cache]

KeywordFilterEvaluate(cache, request, policy, execution_time) ==
    IF policy.config.variant # "KeywordFilter"
    THEN [res |-> Err("Evaluation", <<"Invalid policy config for keyword filter">>),
          cache |-> cache]
    ELSE KeywordResult(request, policy, execution_time,
                       KeywordLoop(cache, request.content, policy.config, 1, <<>>))

KeywordFilterSupports(policy_type) == policy_type = "KeywordFilter"

-----------------------------------------------------------------------------
(* performance.rs *)

ShortLen == 10
MediumLen == 50

RECURSIVE SplitFrom(_, _, _, _)
SplitFrom(s, i, cur, acc) ==
    IF i > Len(s) THEN (IF cur = <<>> THEN acc ELSE Append(acc, cur))
    ELSE IF s[i] = " "
         THEN SplitFrom(s, i + 1, <<>>, IF cur = <<>> THEN acc ELSE Append(acc, cur))
         ELSE SplitFrom(s, i + 1, Append(cur, s[i]), acc)

\* content.split_whitespace()
SplitWhitespace(content) == SplitFrom(content, 1, <<>>, <<>>)

CountOf(content, chars) == Cardinality({i \in 1..Len(content) : content[i] \in chars})

\* bytes of a character in UTF-8; the characters of the model are ASCII but
\* for the two-byte "é"
Utf8Len(c) == IF c = "é" THEN 2 ELSE 1

\* content.len(): the length of a str in bytes
ByteLen(content) == Len(content) + CountOf(content, {"é"}) * (Utf8Len("é") - 1)

\* a as f64 / b as f64 of two counts: NaN for 0/0, else the fraction a/b
FloatDiv(a, b) == [nan |-> a = 0 /\ b = 0, n |-> a, d |-> b]

\* x > n/d for a quotient x of FloatDiv; a comparison with NaN is false, and
\* a positive count over zero is +infinity
FloatGreater(x, n, d) == ~x.nan /\ (IF x.d = 0 THEN TRUE ELSE d * x.n > n * x.d)

NoClamp(n, d) == [n |-> n, d |-> d]

\* score.min(1.0).max(0.0)
Clamp(n, d) ==
    IF n > d THEN [n |-> 1, d |-> 1]
    ELSE IF n < 0 THEN [n |-> 0, d |-> 1]
    ELSE [n |-> n, d |-> d]

\* calculate_quality_score, as the fraction n/d
CalculateQualityScore(content) ==
    LET len == ByteLen(content)
        f1 == IF len < ShortLen THEN <<3, 10>>
              ELSE IF len < MediumLen THEN <<7, 10>> ELSE <<1, 1>>
        words == SplitWhitespace(content)
        unique_words == {words[i] : i \in 1..Len(words)}
        f2 == IF Len(words) > 0 THEN <<Cardinality(unique_words), Len(words)>>
              ELSE <<1, 1>>
        caps_ratio == FloatDiv(CountOf(content, {"A", "B"}), len)
        f3 == IF FloatGreater(caps_ratio, 3, 10) THEN <<8, 10>> ELSE <<1, 1>>
        sentence_count == CountOf(content, {"."}) + CountOf(content, {"!"})
                            + CountOf(content, {"?"})
        f4 == IF sentence_count > 0 THEN <<11, 10>> ELSE <<1, 1>>
    IN  Clamp(f1[1] * f2[1] * f3[1] * f4[1], f1[2] * f2[2] * f3[2] * f4[2])

\* q < t/10
ScoreBelow(q, tenths) == 10 * q.n < tenths * q.d

CountTokens(content) == Len(SplitWhitespace(content))

\* quality_score < 0.3 || token_count > max_tokens.unwrap_or(u32::MAX) * 2.
\* The product is computed only when the first test is false.  It is a u32:
\* when it does not fit (max_tokens absent, or 2^31 and more) the
\* multiplication panics in a build with overflow checks and wraps in one
\* without.
PerformanceSeverity(quality_score, token_count, max_tokens, bld) ==
    IF ScoreBelow(quality_score, 3) THEN Ok("High")
    ELSE LET limit == IF max_tokens.some THEN max_tokens.val ELSE U32Max
             doubled == U32Double(limit)
         IN  IF doubled.overflow /\ bld = "debug"
             THEN Err("Panic", <<"attempt to multiply with overflow">>)
             ELSE IF U32Greater(ToU32(token_count), doubled.val)
                  THEN Ok("High") ELSE Ok("Medium")

PerformanceEvaluate(request, policy, execution_time, bld) ==
    IF policy.config.variant # "Performance"
    THEN Err("Evaluation", <<"Invalid policy config for performance evaluator">>)
    ELSE
    LET config == policy.config
        quality_score == CalculateQualityScore(request.content)
        token_count == CountTokens(request.content)
        v1 == IF ScoreBelow(quality_score, config.min_quality_score)
              THEN <<"quality">> ELSE <<>>
        v2 == IF /\ config.max_tokens.some
                 /\ U32Greater(ToU32(token_count), config.max_tokens.val)
              THEN <<"tokens">> ELSE <<>>
        v3 == IF execution_time > config.max_response_time_ms
              THEN <<"time">> ELSE <<>>
        violations == v1 \o v2 \o v3
        severity == PerformanceSeverity(quality_score, token_count,
                                        config.max_tokens, bld)
    IN  IF violations = <<>>
        THEN Ok(EvaluationResult(request, policy, "Performance", Pass, execution_time))
        ELSE IF ~severity.ok THEN severity
        ELSE Ok(EvaluationResult(request, policy, "Performance",
                  Violation(severity.val, violations, 9,
                            [quality_score |-> quality_score,
                             token_count |-> token_count,
                             execution_time_ms |-> execution_time,
                             violations |-> violations]),
                  execution_time))

PerformanceSupportsRest(policy_type) == policy_type # "KeywordFilter"

PerformanceSupports(policy_type) == policy_type = "Performance"

-----------------------------------------------------------------------------
(* evaluators/mod.rs: the Evaluator trait and the EvaluatorRegistry *)

KeywordFilterEvaluator == [kind |-> "KeywordFilter", name |-> "keyword_filter",
                           supports |-> {}, outcome |-> "none"]
PerformanceEvaluator == [kind |-> "Performance", name |-> "performance",
                         supports |-> {}, outcome |-> "none"]

\* Another implementor of the trait: it claims the policy types of `supports`
\* and answers every call with `outcome`, under its own name.
TestEvaluator(name, supports, outcome) ==
    [kind |-> "Test", name |-> name, supports |-> supports, outcome |-> outcome]

TestEvaluate(e, request, policy) ==
    CASE e.outcome = "Pass" ->
            Ok(EvaluationResult(request, policy, e.name, Pass, 0))
      [] e.outcome = "Violation" ->
            Ok(EvaluationResult(request, policy, e.name,
                                Violation("Low", <<e.name>>, 10, <<>>), 0))
      [] OTHER -> Err("Generic", <<e.name>>)

\* evaluator.supports_policy_type(&policy_type)
SupportsPolicyType(e, policy_type) ==
    CASE e.kind = "KeywordFilter" -> KeywordFilterSupports(policy_type)
      [] e.kind = "Performance" -> PerformanceSupports(policy_type)
      [] OTHER -> policy_type \in e.supports

\* evaluator.evaluate(request, policy)
EvaluatorEvaluate(e, cache, request, policy, execution_time, bld) ==
    CASE e.kind = "KeywordFilter" ->
            KeywordFilterEvaluate(cache, request, policy, execution_time)
      [] e.kind = "Performance" ->
            [res |-> PerformanceEvaluate(request, policy, execution_time, bld),
             cache |-> cache]
      [] OTHER -> [res |-> TestEvaluate(e, request, policy), cache |-> cache]

\* EvaluatorRegistry::new
RegistryNew == <<KeywordFilterEvaluator, PerformanceEvaluator>>

\* EvaluatorRegistry::register
RegistryRegister(evs, evaluator) == Append(evs, evaluator)

NoEvaluatorFound(policy_type) ==
    Err("Evaluation", <<"No evaluator found for policy type: ", policy_type>>)

\* EvaluatorRegistry::evaluate, from evaluator i on; invoked lists the
\* evaluators whose evaluate was called
RECURSIVE RegistryScan(_, _, _, _, _, _, _)
RegistryScan(evs, i, cache, request, policy, execution_time, bld) ==
    IF i > Len(evs)
    THEN [res |-> NoEvaluatorFound(policy.policy_type), cache |-> cache,
          invoked |-> <<>>]
    ELSE IF SupportsPolicyType(evs[i], policy.policy_type)
    THEN LET r == EvaluatorEvaluate(evs[i], cache, request, policy,
                                    execution_time, bld)
         IN  [res |-> r.res, cache |-> r.cache, invoked |-> <<i>>]
    ELSE RegistryScan(evs, i + 1, cache, request, policy, execution_time, bld)

\* the scan that lets the evaluator registered last win
RegistryEvaluateLast(evs, cache, request, policy, execution_time, bld) ==
    LET sup == {i \in 1..Len(evs) : SupportsPolicyType(evs[i], policy.policy_type)}
    IN  IF sup = {} THEN RegistryScan(evs, 1, cache, request, policy,
                                      execution_time, bld)
        ELSE LET i == CHOOSE k \in sup : \A m \in sup : m <= k
                 r == EvaluatorEvaluate(evs[i], cache, request, policy,
                                        execution_time, bld)
             IN  [res |-> r.res, cache |-> r.cache, invoked |-> <<i>>]

RegistryEvaluate(evs, cache, request, policy, execution_time, bld) ==
    RegistryScan(evs, 1, cache, request, policy, execution_time, bld)

-----------------------------------------------------------------------------
(* The inputs of the model *)

ContentSet ==
    { <<>>,
      <<"a", "b">>,
      <<"A", " ", "b">>,
      <<"a", " ", "a", ".">>,
      <<"a", "b", " ", "b", "a", " ", "a", "a", " ", "b", "b", ".">> }

RequestSet == {[id |-> "r", content |-> c] : c \in ContentSet}

\* the elapsed milliseconds an evaluator may measure
ExecTimeSet == {0, 1}

kw_block == Policy("kw_block", "KeywordFilter",
                   KeywordFilterConfig(<< <<"a">> >>, FALSE, "Block"), TRUE)
kw_warn == Policy("kw_warn", "KeywordFilter",
                  KeywordFilterConfig(<< <<"b">>, <<"A">> >>, TRUE, "Warn"), TRUE)
kw_bad == Policy("kw_bad", "KeywordFilter",
                 KeywordFilterConfig(<< <<"a">>, <<"(">> >>, FALSE, "Log"), TRUE)
perf_log == Policy("perf_log", "Performance",
                   PerformanceConfig(0, 5, Some(ToU32(1)), "Log"), TRUE)
perf_open == Policy("perf_open", "Performance",
                    PerformanceConfig(1, 8, NoU32, "Block"), TRUE)
safety == Policy("safety", "ContentSafety", ContentSafetyConfig("Block"), TRUE)
semantic == Policy("semantic", "Semantic", SemanticConfig("Warn"), FALSE)
mismatch == Policy("mismatch", "KeywordFilter",
                   PerformanceConfig(1, 5, NoU32, "Warn"), TRUE)

perf_mismatch == Policy("perf_mismatch", "Performance",
                        KeywordFilterConfig(<< <<"a">> >>, FALSE, "Block"), TRUE)
safety_mismatch == Policy("safety_mismatch", "ContentSafety",
                          KeywordFilterConfig(<< <<"a">> >>, FALSE, "Block"), TRUE)
semantic_mismatch == Policy("semantic_mismatch", "Semantic",
                            PerformanceConfig(1, 0, NoU32, "Log"), TRUE)

PolicySet == {kw_block, kw_warn, kw_bad, perf_log, perf_open, safety, semantic,
              mismatch}

TestEvaluatorSet ==
    { TestEvaluator("t1", {"ContentSafety"}, "Violation"),
      TestEvaluator("t2", {"ContentSafety", "Semantic"}, "Pass"),
      TestEvaluator("t3", {"KeywordFilter", "Semantic"}, "Err") }

-----------------------------------------------------------------------------
(* The registry on its own: register calls and evaluate calls *)

NoCall == [made |-> FALSE]

RegRequestSet == {r \in RequestSet : Len(r.content) \in {3, 12}}

\* one policy of each type, and one whose pattern does not compile
RegPolicySet == {kw_block, kw_bad, perf_log, safety, semantic}

InitRegistry ==
    /\ evaluators = RegistryNew
    /\ regex_cache = {}
    /\ reg_call = NoCall
    /\ reg_invoked = <<>>
    /\ reg_result = NoCall
    /\ reg_calls = 0

Register(e) ==
    /\ Len(evaluators) < Len(RegistryNew) + MaxRegistered
    /\ evaluators' = RegistryRegister(evaluators, e)
    /\ UNCHANGED <<build, key_call, rq, rv, trip, regex_cache, reg_call, reg_invoked, reg_result, reg_calls,
                   rcVars, evVars, heVars, gVars>>

Evaluate(request, policy, execution_time) ==
    LET r == RegistryEvaluate(evaluators, regex_cache, request, policy,
                              execution_time, build)
    IN  /\ reg_calls < MaxEvalCalls
        /\ reg_calls' = reg_calls + 1
        /\ reg_call' = [made |-> TRUE, evaluators |-> evaluators,
                        cache |-> regex_cache, request |-> request,
                        policy |-> policy, execution_time |-> execution_time]
        /\ reg_invoked' = r.invoked
        /\ reg_result' = r.res
        /\ regex_cache' = r.cache
        /\ UNCHANGED <<build, key_call, rq, rv, trip, evaluators, rcVars, evVars, heVars, gVars>>

NextRegistry ==
    \/ \E e \in TestEvaluatorSet : Register(e)
    \/ \E request \in RegRequestSet, policy \in RegPolicySet, t \in ExecTimeSet :
          Evaluate(request, policy, t)

\* policies whose config is not of the variant their type names
MismatchPolicySet == {mismatch, perf_mismatch, safety_mismatch, semantic_mismatch}

NextRegistryMismatch ==
    \/ \E e \in TestEvaluatorSet : Register(e)
    \/ \E request \in RegRequestSet, policy \in MismatchPolicySet, t \in ExecTimeSet :
          Evaluate(request, policy, t)

-----------------------------------------------------------------------------
(* Concurrent calls of get_or_compile_regex on one KeywordFilterEvaluator. *)
(* Each DashMap operation is atomic; a caller can be overtaken between its *)
(* get, its Regex::new and its insert.                                     *)

Callers == 1..NumCallers

PatternSet == { <<"a">>, <<"(">>, <<"a", "{", "9", "}">> }

KeySet == {CacheKey(p, cs) : p \in PatternSet, cs \in BOOLEAN}

NoReturn == [returned |-> FALSE]

InitCache ==
    /\ rc_pc = [w \in Callers |-> "idle"]
    /\ rc_args = [w \in Callers |-> [pattern |-> <<>>, case_sensitive |-> FALSE,
                                     cache_key |-> <<>>]]
    /\ rc_regex = [w \in Callers |-> [ci |-> FALSE, lit |-> <<>>]]
    /\ rc_ret = [w \in Callers |-> NoReturn]
    /\ rc_compiles = [k \in KeySet |-> 0]
    /\ rc_done = [k \in KeySet |-> 0]
    /\ rc_calls = 0

Returned(w, res) ==
    /\ rc_ret' = [rc_ret EXCEPT ![w] =
                    [returned |-> TRUE, pattern |-> rc_args[w].pattern,
                     case_sensitive |-> rc_args[w].case_sensitive,
                     cache_key |-> rc_args[w].cache_key, res |-> res]]
    /\ rc_done' = [rc_done EXCEPT ![rc_args[w].cache_key] = @ + 1]
    /\ rc_pc' = [rc_pc EXCEPT ![w] = "idle"]

\* entry: let cache_key = format!(..)
Call(w, pattern, case_sensitive) ==
    /\ rc_pc[w] = "idle"
    /\ rc_calls < MaxCalls
    /\ rc_calls' = rc_calls + 1
    /\ rc_args' = [rc_args EXCEPT ![w] =
                     [pattern |-> pattern, case_sensitive |-> case_sensitive,
                      cache_key |-> CacheKey(pattern, case_sensitive)]]
    /\ rc_pc' = [rc_pc EXCEPT ![w] = "get"]
    /\ UNCHANGED <<build, key_call, rq, rv, trip, regex_cache, regVars, evVars, heVars, gVars, rc_regex, rc_ret, rc_compiles,
                   rc_done>>

\* if let Some(regex) = self.regex_cache.get(&cache_key) { return Ok(..) }
Get(w) ==
    /\ rc_pc[w] = "get"
    /\ LET hit == CacheGet(regex_cache, rc_args[w].cache_key)
       IN  IF hit.some
           THEN Returned(w, Ok(hit.val))
           ELSE /\ rc_pc' = [rc_pc EXCEPT ![w] = "compile"]
                /\ UNCHANGED <<rc_ret, rc_done>>
    /\ UNCHANGED <<build, key_call, rq, rv, trip, regex_cache, regVars, evVars, heVars, gVars, rc_args, rc_regex, rc_compiles,
                   rc_calls>>

\* let regex = Regex::new(&regex_pattern)?;
Compile(w) ==
    /\ rc_pc[w] = "compile"
    /\ rc_compiles' = [rc_compiles EXCEPT ![rc_args[w].cache_key] = @ + 1]
    /\ LET regex == RegexNew(RegexPattern(rc_args[w].pattern,
                                          rc_args[w].case_sensitive))
       IN  IF regex.ok
           THEN /\ rc_regex' = [rc_regex EXCEPT ![w] = regex.val]
                /\ rc_pc' = [rc_pc EXCEPT ![w] = "insert"]
                /\ UNCHANGED <<rc_ret, rc_done>>
           ELSE /\ Returned(w, regex)
                /\ UNCHANGED rc_regex
    /\ UNCHANGED <<build, key_call, rq, rv, trip, regex_cache, regVars, evVars, heVars, gVars, rc_args, rc_calls>>

\* self.regex_cache.insert(cache_key, regex.clone()); Ok(regex)
Insert(w) ==
    /\ rc_pc[w] = "insert"
    /\ regex_cache' = CacheInsert(regex_cache, rc_args[w].cache_key, rc_regex[w])
    /\ Returned(w, Ok(rc_regex[w]))
    /\ UNCHANGED <<build, key_call, rq, rv, trip, regVars, evVars, heVars, gVars, rc_args, rc_regex, rc_compiles, rc_calls>>

NextCache ==
    \/ \E w \in Callers, p \in PatternSet, cs \in BOOLEAN : Call(w, p, cs)
    \/ \E w \in Callers : Get(w)
    \/ \E w \in Callers : Compile(w)
    \/ \E w \in Callers : Insert(w)

\* one call at a time: a call starts only when no other is in progress
CallAlone(w, pattern, case_sensitive) ==
    /\ \A v \in Callers : rc_pc[v] = "idle"
    /\ Call(w, pattern, case_sensitive)

NextCacheSeq ==
    \/ \E w \in Callers, p \in PatternSet, cs \in BOOLEAN : CallAlone(w, p, cs)
    \/ \E w \in Callers : Get(w)
    \/ \E w \in Callers : Compile(w)
    \/ \E w \in Callers : Insert(w)

-----------------------------------------------------------------------------
(* cli/evaluate.rs: handle_evaluate.  The two evaluators are built afresh  *)
(* for the call, so the keyword evaluator starts with an empty cache.  The *)
(* calls in the handler name no policy: the policy each evaluator judges   *)
(* by is an input of the step.                                             *)

FormatSet == {"json", "yaml", "table", "xml"}
TimeoutSet == {0, 1, 5000}

EvaluateArgsSet ==
    [content : ContentSet, policy_id : {None}, format : FormatSet,
     verbose : {FALSE}, timeout : TimeoutSet]

NoReturnYet == [returned |-> FALSE]

InitHandleEvaluate ==
    /\ he_pc = "init"
    /\ he_args = [content |-> <<>>, policy_id |-> None, format |-> "json",
                  verbose |-> FALSE, timeout |-> 5000]
    /\ he_results = <<>>
    /\ he_outcomes = <<>>
    /\ he_elapsed = 0
    /\ he_late = 0
    /\ he_ret = NoReturnYet

\* the EvaluationRequest the handler builds
HeRequest(args) == [id |-> "cli", content |-> args.content]

\* let start_time = Instant::now(); .. let mut results = Vec::new();
HeStart(args) ==
    /\ he_pc = "init"
    /\ he_pc' = "keyword"
    /\ he_args' = args
    /\ UNCHANGED <<build, key_call, rq, rv, trip, regex_cache, regVars, evVars, rcVars, gVars, he_results, he_outcomes,
                   he_elapsed, he_late, he_ret>>

\* if let Ok(result) = <evaluator>.evaluate(..).await { results.push(result); }
PushIfOk(results, res) == IF res.ok THEN Append(results, res.val) ELSE results

HeCall(res, policy, execution_time, next_pc) ==
    /\ he_late' = he_late + (IF he_elapsed > he_args.timeout THEN 1 ELSE 0)
    /\ he_elapsed' = he_elapsed + execution_time
    /\ IF IsPanic(res)
       THEN /\ he_pc' = "done"
            /\ he_ret' = [returned |-> TRUE, res |-> res]
            /\ UNCHANGED <<he_results, he_outcomes>>
       ELSE /\ he_pc' = next_pc
            /\ he_results' = PushIfOk(he_results, res)
            /\ he_outcomes' = Append(he_outcomes,
                                     [policy_id |-> policy.id, res |-> res])
            /\ UNCHANGED he_ret
    /\ UNCHANGED <<build, key_call, rq, rv, trip, regex_cache, regVars, evVars, rcVars, gVars, he_args>>

HeKeyword(policy, execution_time) ==
    /\ he_pc = "keyword"
    /\ HeCall(KeywordFilterEvaluate({}, HeRequest(he_args), policy,
                                    execution_time).res,
              policy, execution_time, "performance")

HePerformance(policy, execution_time) ==
    /\ he_pc = "performance"
    /\ HeCall(PerformanceEvaluate(HeRequest(he_args), policy, execution_time, build),
              policy, execution_time, "output")

CountViolations(results) ==
    Cardinality({i \in 1..Len(results) : results[i].result.tag = "Violation"})

\* let evaluation_time = start_time.elapsed(); match args.format.as_str() ..
HeOutput ==
    /\ he_pc = "output"
    /\ he_pc' = "done"
    /\ he_ret' =
         [returned |-> TRUE,
          res |-> IF he_args.format \in {"json", "yaml", "table"}
                  THEN Ok([evaluation_time_ms |-> he_elapsed,
                           total_policies |-> Len(he_results),
                           violations |-> CountViolations(he_results),
                           results |-> he_results])
                  ELSE Err("InvalidFormat", <<he_args.format>>)]
    /\ UNCHANGED <<build, key_call, rq, rv, trip, regex_cache, regVars, evVars, rcVars, gVars, he_args, he_results,
                   he_outcomes, he_elapsed, he_late>>

NextHandleEvaluate ==
    \/ \E args \in EvaluateArgsSet : HeStart(args)
    \/ \E policy \in PolicySet, t \in ExecTimeSet : HeKeyword(policy, t)
    \/ \E policy \in PolicySet, t \in ExecTimeSet : HePerformance(policy, t)
    \/ HeOutput

-----------------------------------------------------------------------------
(* cli/guard.rs: GuardCommand::execute.  The text of --policies is a       *)
(* sequence whose elements are "," , " " and whole policy ids.             *)

RECURSIVE SplitCommaFrom(_, _, _, _)
SplitCommaFrom(s, i, cur, acc) ==
    IF i > Len(s) THEN Append(acc, cur)
    ELSE IF s[i] = "," THEN SplitCommaFrom(s, i + 1, <<>>, Append(acc, cur))
    ELSE SplitCommaFrom(s, i + 1, Append(cur, s[i]), acc)

\* policy_list.split(',')
SplitComma(text) == SplitCommaFrom(text, 1, <<>>, <<>>)

\* a segment taken as it is
Untrimmed(seg) == seg

RECURSIVE Trim(_)
Trim(seg) ==
    IF seg # <<>> /\ Head(seg) = " " THEN Trim(Tail(seg))
    ELSE IF seg # <<>> /\ seg[Len(seg)] = " " THEN Trim(SubSeq(seg, 1, Len(seg) - 1))
    ELSE seg

\* the `policies` vector: each id is the trimmed text of one segment
ParsePolicies(policies) ==
    IF policies.some
    THEN LET segs == SplitComma(policies.val)
         IN  [i \in 1..Len(segs) |-> Trim(segs[i])]
    ELSE <<>>

ArgsWithoutEarlyExit(cmd) ==
    [host |-> cmd.host, port |-> cmd.port, organization |-> cmd.organization,
     policies |-> ParsePolicies(cmd.policies), early_exit |-> FALSE]

\* the arguments of proxy.start_server(..)
StartServerArgs(cmd) ==
    [host |-> cmd.host, port |-> cmd.port, organization |-> cmd.organization,
     policies |-> ParsePolicies(cmd.policies), early_exit |-> cmd.early_exit]

-----------------------------------------------------------------------------
(* The proxy that start_server runs (crate::proxy), one request at a time: *)
(* the interception pipeline of the specification, section 4.5, over the   *)
(* registry above.  A request that is aborted (timeout, upstream failure,  *)
(* panic) keeps the state it was aborted in and gets an outcome.           *)

MaxListed == 2          \* policy ids in a --policies list

PolicyStore == <<kw_warn, kw_block, perf_log, perf_open, safety, semantic>>

StoreIds == {PolicyStore[i].id : i \in 1..Len(PolicyStore)}

RECURSIVE JoinIds(_)
JoinIds(ids) ==
    IF Len(ids) = 1 THEN <<ids[1]>>
    ELSE <<ids[1], ",", " ">> \o JoinIds(Tail(ids))

IdLists == UNION {[1..n -> StoreIds] : n \in 1..MaxListed}

GuardCommandSet ==
    [port : {8080}, host : {"127.0.0.1"}, organization : {Some("org")},
     policies : {NoText} \cup {Some(JoinIds(l)) : l \in IdLists},
     early_exit : BOOLEAN]

ConfigSet == [timeout : {1, 5000}]

Message(content) == [role |-> "user", content |-> content]

ChatRequestSet ==
    { [model |-> "m", messages |-> << Message(<<"b">>) >>],
      [model |-> "m", messages |-> << Message(<<"a", "b">>) >>],
      [model |-> "m", messages |-> << Message(<<".">>) >>],
      [model |-> "m", messages |-> << Message(<<"b">>), Message(<<"a">>) >>] }

UpstreamContentSet == { <<"a">>, <<"b", ".">> }

\* Policy Store: get_policies(organization_id, ids?)
GetPolicies(store, organization, ids) ==
    IF ids # <<>>
    THEN LET found(i) == {k \in 1..Len(store) : <<store[k].id>> = ids[i]}
             known == SelectSeq([i \in 1..Len(ids) |-> i], LAMBDA i : found(i) # {})
         IN  [n \in 1..Len(known) |-> store[CHOOSE k \in found(known[n]) : TRUE]]
    ELSE SelectSeq(store,
                   LAMBDA pol : pol.enabled /\ (organization.some =>
                                   pol.organization_id = organization.val))

\* step 2: the active policy set
ResolveActive(store, server) ==
    GetPolicies(store, server.organization, server.policies)

\* step 1: the concatenation of the message contents
RECURSIVE ExtractContent(_)
ExtractContent(messages) ==
    IF messages = <<>> THEN <<>>
    ELSE Head(messages).content \o ExtractContent(Tail(messages))

\* the action a result stands for: its policy's, when it is a violation
FindingOf(policy, result) ==
    IF result.tag = "Violation" THEN policy.config.action ELSE "Pass"

\* the entry a registry answer adds to the aggregated results; an evaluator
\* failure becomes a PolicyResult::Error entry
ResultEntry(policy, res) ==
    LET result == IF res.ok THEN res.val.result
                  ELSE [tag |-> "Error", message |-> res.err.msg]
    IN  [policy_id |-> policy.id, policy_type |-> policy.policy_type,
         policy |-> policy, result |-> result,
         finding |-> FindingOf(policy, result)]

HasBlock(results) == \E i \in 1..Len(results) : results[i].finding = "Block"

Rank(finding) ==
    CASE finding = "Block" -> 3 [] finding = "Warn" -> 2
      [] finding = "Log" -> 1 [] OTHER -> 0

RECURSIVE DecideFrom(_, _, _)
DecideFrom(results, i, best) ==
    IF i > Len(results) THEN best
    ELSE DecideFrom(results, i + 1,
                    IF Rank(results[i].finding) > Rank(best)
                    THEN results[i].finding ELSE best)

\* the decision in which the finding made last wins
DecideLast(results) ==
    LET found == {i \in 1..Len(results) : results[i].finding # "Pass"}
    IN  IF found = {} THEN "Pass"
        ELSE results[CHOOSE i \in found : \A j \in found : j <= i].finding

\* step 4: Block beats Warn beats Log beats Pass
Decide(results) == DecideFrom(results, 1, "Pass")

AfterInboundForward(decision) == "Forwarding"

AfterInbound(decision) == IF decision = "Block" THEN "Blocked" ELSE "Forwarding"

AfterOutboundCompleted(decision) == "Completed"

AfterOutbound(decision) == IF decision = "Block" THEN "Blocked" ELSE "Completed"

OutboundActiveFresh(store, server, active) == ResolveActive(store, server)

\* the policies the outbound content is evaluated against: the active set
\* resolved for the request, whatever the store holds by now
OutboundActive(store, server, active) == active

\* whether another evaluator is to be scheduled for the content
MoreToEvaluate(server, active, idx, results) ==
    /\ idx <= Len(active)
    /\ ~(server.early_exit /\ HasBlock(results))

\* every finding, whatever its action
FindingsOfAnyAction(results, finding) ==
    SelectSeq(results, LAMBDA e : e.finding # "Pass")

Findings(results, finding) == SelectSeq(results, LAMBDA e : e.finding = finding)

\* the violation response: the triggering policy and its reason
ViolationResponse(results) ==
    LET e == Head(Findings(results, "Block"))
    IN  [kind |-> "violation", policy_id |-> e.policy_id,
         policy_type |-> e.policy_type, severity |-> e.result.severity,
         message |-> e.result.message, details |-> e.result.details]

NotStarted == [started |-> FALSE]
NoDecision == [made |-> FALSE]

InitGuard ==
    /\ g_cmd = NotStarted
    /\ g_server = NotStarted
    /\ g_state = "Idle"
    /\ g_request = [model |-> "m", messages |-> <<>>]
    /\ g_content = <<>>
    /\ g_active = <<>>
    /\ g_idx = 1
    /\ g_results = <<>>
    /\ g_calls = 0
    /\ g_inbound = NoDecision
    /\ g_decision = NoDecision
    /\ g_upstream = 0
    /\ g_elapsed = 0
    /\ g_outcome = "none"
    /\ g_response = [kind |-> "none"]
    /\ g_log = <<>>
    /\ g_store = [policies |-> PolicyStore, log |-> <<>>]

Running == g_server.started /\ g_outcome = "none"
InBudget == g_elapsed <= g_server.timeout

\* GuardCommand::execute: LLMProxy::new(config), proxy.start_server(..)
Execute(cmd, config) ==
    /\ ~g_server.started
    /\ g_cmd' = [started |-> TRUE, cmd |-> cmd]
    /\ g_server' = [started |-> TRUE, args |-> StartServerArgs(cmd),
                    timeout |-> config.timeout]
    /\ UNCHANGED <<build, key_call, rq, rv, trip, regex_cache, regVars, evVars, rcVars, heVars, g_store, g_state, g_request,
                   g_content, g_active, g_idx, g_results, g_calls, g_inbound,
                   g_decision, g_upstream, g_elapsed, g_outcome, g_response, g_log>>

Accept(request) ==
    /\ Running /\ g_state = "Idle"
    /\ g_state' = "ReceivingRequest"
    /\ g_request' = request
    /\ UNCHANGED <<build, key_call, rq, rv, trip, regex_cache, regVars, evVars, rcVars, heVars, g_store, g_cmd, g_server,
                   g_content, g_active, g_idx, g_results, g_calls, g_inbound,
                   g_decision, g_upstream, g_elapsed, g_outcome, g_response, g_log>>

\* steps 1 and 2
Resolve ==
    /\ Running /\ g_state = "ReceivingRequest"
    /\ g_state' = "EvaluatingInbound"
    /\ g_content' = ExtractContent(g_request.messages)
    /\ g_active' = ResolveActive(g_store.policies, g_server.args)
    /\ g_idx' = 1
    /\ g_results' = <<>>
    /\ g_calls' = 0
    /\ UNCHANGED <<build, key_call, rq, rv, trip, regex_cache, regVars, evVars, rcVars, heVars, g_store, g_cmd, g_server,
                   g_request, g_inbound, g_decision, g_upstream, g_elapsed,
                   g_outcome, g_response, g_log>>

\* step 3: one EvaluatorRegistry.evaluate call, run to completion
EvaluateNext(execution_time) ==
    /\ Running /\ InBudget
    /\ g_state \in {"EvaluatingInbound", "EvaluatingOutbound"}
    /\ MoreToEvaluate(g_server.args, g_active, g_idx, g_results)
    /\ LET policy == g_active[g_idx]
           r == RegistryEvaluate(evaluators, regex_cache,
                                 [id |-> "g", content |-> g_content], policy,
                                 execution_time, build)
       IN  /\ regex_cache' = r.cache
           /\ g_calls' = g_calls + Len(r.invoked)
           /\ g_elapsed' = g_elapsed + execution_time
           /\ IF IsPanic(r.res)
              THEN /\ g_outcome' = "Panic"
                   /\ UNCHANGED <<g_idx, g_results>>
              ELSE /\ g_idx' = g_idx + 1
                   /\ g_results' = Append(g_results, ResultEntry(policy, r.res))
                   /\ UNCHANGED g_outcome
    /\ UNCHANGED <<build, key_call, rq, rv, trip, regVars, evVars, rcVars, heVars, g_store, g_cmd, g_server, g_state, g_request,
                   g_content, g_active, g_inbound, g_decision, g_upstream,
                   g_response, g_log>>

\* step 4 for the inbound content
DecideInbound ==
    /\ Running /\ InBudget
    /\ g_state = "EvaluatingInbound"
    /\ ~MoreToEvaluate(g_server.args, g_active, g_idx, g_results)
    /\ LET decision == Decide(g_results)
       IN  /\ g_decision' = [made |-> TRUE, results |-> g_results,
                             decision |-> decision]
           /\ g_inbound' = g_decision'
           /\ g_state' = AfterInbound(decision)
           /\ IF g_state' = "Blocked"
              THEN /\ g_outcome' = "Violation"
                   /\ g_response' = ViolationResponse(g_results)
              ELSE UNCHANGED <<g_outcome, g_response>>
    /\ UNCHANGED <<build, key_call, rq, rv, trip, regex_cache, regVars, evVars, rcVars, heVars, g_store, g_cmd, g_server,
                   g_request, g_content, g_active, g_idx, g_results, g_calls,
                   g_upstream, g_elapsed, g_log>>

\* step 5: the upstream call answers
Forward(content, duration) ==
    /\ Running /\ InBudget
    /\ g_state = "Forwarding"
    /\ g_upstream' = g_upstream + 1
    /\ g_elapsed' = g_elapsed + duration
    /\ g_state' = "EvaluatingOutbound"
    /\ g_content' = content
    /\ g_active' = OutboundActive(g_store.policies, g_server.args, g_active)
    /\ g_idx' = 1
    /\ g_results' = <<>>
    /\ g_calls' = 0
    /\ UNCHANGED <<build, key_call, rq, rv, trip, regex_cache, regVars, evVars, rcVars, heVars, g_store, g_cmd, g_server,
                   g_request, g_inbound, g_decision, g_outcome,
                   g_response, g_log>>

\* step 5: the upstream call fails, which aborts the request
UpstreamFails ==
    /\ Running /\ InBudget
    /\ g_state = "Forwarding"
    /\ g_upstream' = g_upstream + 1
    /\ g_outcome' = "UpstreamError"
    /\ UNCHANGED <<build, key_call, rq, rv, trip, regex_cache, regVars, evVars, rcVars, heVars, g_store, g_cmd, g_server,
                   g_state, g_request, g_content, g_active, g_idx, g_results,
                   g_calls, g_inbound, g_decision, g_elapsed, g_response, g_log>>

\* step 4 for the outbound content
DecideOutbound ==
    /\ Running /\ InBudget
    /\ g_state = "EvaluatingOutbound"
    /\ ~MoreToEvaluate(g_server.args, g_active, g_idx, g_results)
    /\ LET decision == Decide(g_results)
       IN  /\ g_decision' = [made |-> TRUE, results |-> g_results,
                             decision |-> decision]
           /\ g_state' = AfterOutbound(decision)
           /\ IF g_state' = "Blocked"
              THEN /\ g_outcome' = "Violation"
                   /\ g_response' = ViolationResponse(g_results)
                   /\ UNCHANGED g_log
              ELSE /\ g_outcome' = "Relayed"
                   /\ g_response' =
                        [kind |-> "relayed", content |-> g_content,
                         advisories |-> Findings(g_inbound.results, "Warn")
                                          \o Findings(g_results, "Warn")]
                   /\ g_log' = Findings(g_inbound.results, "Log")
                                \o Findings(g_results, "Log")
    /\ UNCHANGED <<build, key_call, rq, rv, trip, regex_cache, regVars, evVars, rcVars, heVars, g_store, g_cmd, g_server,
                   g_request, g_content, g_active, g_idx, g_results, g_calls,
                   g_inbound, g_upstream, g_elapsed>>

\* step 6: the budget is exceeded before the pipeline has decided
TimeOut ==
    /\ Running /\ ~InBudget
    /\ g_state \in {"EvaluatingInbound", "Forwarding", "EvaluatingOutbound"}
    /\ g_outcome' = "Timeout"
    /\ UNCHANGED <<build, key_call, rq, rv, trip, regex_cache, regVars, evVars, rcVars, heVars, g_store, g_cmd, g_server,
                   g_state, g_request, g_content, g_active, g_idx, g_results,
                   g_calls, g_inbound, g_decision, g_upstream, g_elapsed,
                   g_response, g_log>>

NextGuard ==
    \/ \E cmd \in GuardCommandSet, config \in ConfigSet : Execute(cmd, config)
    \/ \E request \in ChatRequestSet : Accept(request)
    \/ Resolve
    \/ \E t \in ExecTimeSet : EvaluateNext(t)
    \/ DecideInbound
    \/ \E content \in UpstreamContentSet, t \in ExecTimeSet : Forward(content, t)
    \/ UpstreamFails
    \/ DecideOutbound
    \/ TimeOut

\* The Policy Store updated while the guard runs.

MaxStoreUpdates == 1    \* updates of the Policy Store in one run

\* a policy as an update leaves it: with another action, or switched
\* off or on
Reconfigured(policy) ==
    [policy EXCEPT !.config.action = IF @ = "Block" THEN "Log" ELSE "Block"]
Toggled(policy) == [policy EXCEPT !.enabled = ~@]

StoreUpdateSet == {Reconfigured(kw_warn), Toggled(perf_log), Reconfigured(perf_log)}

StoreCommandSet ==
    [port : {8080}, host : {"127.0.0.1"}, organization : {Some("org")},
     policies : {NoText, Some(<<"kw_warn", ",", " ", "perf_log">>)},
     early_exit : BOOLEAN]

\* the store replaces the policy of updated's id; the log keeps the state
\* the request was in
UpdateStore(updated) ==
    /\ Running
    /\ Len(g_store.log) < MaxStoreUpdates
    /\ \E k \in 1..Len(g_store.policies) :
          /\ g_store.policies[k].id = updated.id
          /\ g_store.policies[k] # updated
          /\ g_store' = [policies |-> [g_store.policies EXCEPT ![k] = updated],
                         log |-> Append(g_store.log,
                                        [id |-> updated.id, state |-> g_state])]
    /\ UNCHANGED <<build, key_call, rq, rv, trip, regex_cache, regVars, evVars, rcVars, heVars, g_cmd, g_server,
                   g_state, g_request, g_content, g_active, g_idx, g_results,
                   g_calls, g_inbound, g_decision, g_upstream, g_elapsed,
                   g_outcome, g_response, g_log>>

NextGuardStore ==
    \/ \E cmd \in StoreCommandSet, config \in ConfigSet : Execute(cmd, config)
    \/ \E request \in ChatRequestSet : Accept(request)
    \/ Resolve
    \/ \E t \in ExecTimeSet : EvaluateNext(t)
    \/ DecideInbound
    \/ \E content \in UpstreamContentSet, t \in ExecTimeSet : Forward(content, t)
    \/ UpstreamFails
    \/ DecideOutbound
    \/ TimeOut
    \/ \E updated \in StoreUpdateSet : UpdateStore(updated)

-----------------------------------------------------------------------------
(* An evaluator called directly, one call after another.  The keyword      *)
(* filter evaluator keeps its regex cache from call to call.               *)

MaxPatterns == 2        \* patterns of a keyword filter policy
MaxEvCalls == 2         \* Evaluator::evaluate calls in one run

KfPatternSet == { <<"a">>, <<"B", "a">> }

RECURSIVE SeqsUpTo(_, _)
SeqsUpTo(S, n) ==
    IF n = 0 THEN { <<>> }
    ELSE LET shorter == SeqsUpTo(S, n - 1)
         IN  shorter \cup {Append(q, x) : q \in shorter, x \in S}

KfPolicySet ==
    { Policy("kw", "KeywordFilter", KeywordFilterConfig(ps, cs, "Block"), TRUE) :
        ps \in SeqsUpTo(KfPatternSet, MaxPatterns), cs \in BOOLEAN }

\* pattern lists with a pattern that does not compile: first, between two
\* that do, and last
KfFailingSet ==
    { Policy("kw", "KeywordFilter", KeywordFilterConfig(ps, cs, "Block"), TRUE) :
        ps \in { << <<"(">>, <<"a">> >>,
                 << <<"a">>, <<"(">>, <<"B">> >>,
                 << <<"B">>, <<"a">>, <<"(">> >> },
        cs \in BOOLEAN }

\* contents without and with occurrences, at the start and further in
KfRequestSet == {r \in RequestSet : Len(r.content) # 4}

InitEvaluators ==
    /\ ev_call = NoCall
    /\ ev_result = NoCall
    /\ ev_calls = 0

\* KeywordFilterEvaluator::evaluate(request, policy)
KfEvaluate(request, policy, execution_time) ==
    LET r == KeywordFilterEvaluate(regex_cache, request, policy, execution_time)
    IN  /\ ev_calls < MaxEvCalls
        /\ ev_calls' = ev_calls + 1
        /\ ev_call' = [made |-> TRUE, evaluator |-> "KeywordFilter",
                       cache |-> regex_cache, request |-> request,
                       policy |-> policy, execution_time |-> execution_time]
        /\ ev_result' = r.res
        /\ regex_cache' = r.cache
        /\ UNCHANGED <<build, key_call, rq, rv, trip, regVars, rcVars, heVars, gVars>>

\* KeywordFilterEvaluator::new: another instance, with an empty cache
KfNew ==
    /\ regex_cache # {}
    /\ regex_cache' = {}
    /\ UNCHANGED <<build, key_call, rq, rv, trip, regVars, evVars, rcVars, heVars, gVars>>

NextKeywordFilter ==
    \/ \E request \in KfRequestSet, policy \in KfPolicySet : KfEvaluate(request, policy, 0)
    \/ KfNew

\* the same calls, also with policies that have a pattern that fails
NextKeywordFailing ==
    \/ \E request \in KfRequestSet, policy \in KfPolicySet \cup KfFailingSet :
          KfEvaluate(request, policy, 0)
    \/ KfNew

\* The performance evaluator keeps nothing from call to call: a run makes
\* one call.

Repeat(c, n) == [i \in 1..n |-> c]

PerfContentSet ==
    { <<>>,
      <<" ", " ">>,
      <<"h", "i">>,
      <<"A", "B">>,
      <<"a", " ", "a", ".">>,
      <<"a", " ", "b", " ", "c">>,
      Repeat("é", 5),
      Repeat("x", ShortLen - 1),
      Repeat("x", ShortLen),
      Repeat("x", MediumLen - 1),
      Repeat("x", MediumLen),
      Repeat("x", MediumLen) \o <<".">>,
      <<"a", "b", " ", "b", "a", " ", "a", "a", " ", "b", "b", ".">> }

\* contents of 0 to 4 tokens, scoring below, at and above 0.3
PerfRequestSet ==
    { [id |-> "r", content |-> c] :
        c \in {p \in PerfContentSet : Len(p) \in {0, 2, 4, 5, 12, ShortLen, MediumLen + 1}} }

MaxTokensSet ==
    { NoU32, Some(ToU32(0)), Some(ToU32(1)), Some(ToU32(2)),
      Some(U32(Half \div 2, 0)) }

PerfPolicySet ==
    { Policy("perf", "Performance", PerformanceConfig(rt, mq, mt, "Log"), TRUE) :
        rt \in ExecTimeSet, mq \in {0, 3, 10}, mt \in MaxTokensSet }

\* PerformanceEvaluator::calculate_quality_score(content)
PerfScore(content) ==
    /\ ~ev_call.made
    /\ ev_call' = [made |-> TRUE, evaluator |-> "calculate_quality_score",
                   content |-> content]
    /\ ev_result' = CalculateQualityScore(content)
    /\ UNCHANGED <<build, key_call, rq, rv, trip, regex_cache, regVars, ev_calls, rcVars, heVars, gVars>>

\* PerformanceEvaluator::evaluate(request, policy)
PerfEvaluate(request, policy, execution_time) ==
    /\ ~ev_call.made
    /\ ev_call' = [made |-> TRUE, evaluator |-> "Performance",
                   request |-> request, policy |-> policy,
                   execution_time |-> execution_time]
    /\ ev_result' = PerformanceEvaluate(request, policy, execution_time, build)
    /\ UNCHANGED <<build, key_call, rq, rv, trip, regex_cache, regVars, ev_calls, rcVars, heVars, gVars>>

NextPerformance ==
    \/ \E content \in PerfContentSet : PerfScore(content)
    \/ \E request \in PerfRequestSet, policy \in PerfPolicySet, t \in ExecTimeSet :
          PerfEvaluate(request, policy, t)

-----------------------------------------------------------------------------
(* Requests served concurrently over one EvaluatorRegistry, whose keyword  *)
(* filter evaluator they share with its regex cache.  Each request         *)
(* evaluates the policies of its list in order (section 4.5, step 3).  A   *)
(* keyword filter evaluation is interleaved with the other requests at     *)
(* each DashMap operation: a request can be overtaken between its get and  *)
(* its insert.  An evaluator panic ends the request.                       *)

NumRequests == 2        \* requests served concurrently

Requests == 1..NumRequests

kw_exact == Policy("kw_exact", "KeywordFilter",
                   KeywordFilterConfig(<< <<"a">> >>, TRUE, "Warn"), TRUE)
perf_fast == Policy("perf_fast", "Performance",
                    PerformanceConfig(0, 0, Some(ToU32(9)), "Block"), TRUE)

\* what a request brings: its content and its policy list.  The lists share
\* the pattern "a", case-insensitive in kw_block and kw_bad and
\* case-sensitive in kw_exact.
RqInputSet ==
    { [content |-> <<"A", " ", "b">>, list |-> <<kw_block, perf_fast>>],
      [content |-> <<"A", " ", "b">>, list |-> <<kw_exact>>],
      [content |-> <<"a", "b">>, list |-> <<kw_bad, kw_exact>>],
      [content |-> <<"a", "b">>, list |-> <<perf_fast, kw_block>>] }

NoRequest ==
    [pc |-> "idle", content |-> <<>>, list |-> <<>>, idx |-> 1, i |-> 1,
     violations |-> <<>>, times |-> <<>>, results |-> <<>>, panicked |-> FALSE,
     raced |-> FALSE]

InitRequests == rq = [r \in Requests |-> NoRequest]

RqRequest(q) == [id |-> "q", content |-> q.content]

\* results kept with the latest first
RqAnsweredLatestFirst(q, res) ==
    IF IsPanic(res)
    THEN [q EXCEPT !.pc = "done", !.panicked = TRUE]
    ELSE [q EXCEPT !.results = <<ResultEntry(q.list[q.idx], res)>> \o @,
                   !.idx = @ + 1,
                   !.pc = IF q.idx + 1 > Len(q.list) THEN "done" ELSE "evaluate"]

\* the request after EvaluatorRegistry::evaluate answered res for its
\* current policy
RqAnswered(q, res) ==
    IF IsPanic(res)
    THEN [q EXCEPT !.pc = "done", !.panicked = TRUE]
    ELSE [q EXCEPT !.results = Append(@, ResultEntry(q.list[q.idx], res)),
                   !.idx = @ + 1,
                   !.pc = IF q.idx + 1 > Len(q.list) THEN "done" ELSE "evaluate"]

\* keyword_filter.rs, lines 61 to 65, with the regex of pattern i and what
\* it captures: the violation is pushed and the loop goes on, or ends
RqCaptured(q, pattern, captures, violations) ==
    IF q.i < Len(q.list[q.idx].config.patterns)
    THEN [q EXCEPT !.i = @ + 1, !.violations = violations, !.pc = "get"]
    ELSE RqAnswered([q EXCEPT !.violations = <<>>, !.i = 1],
                    KeywordResult(RqRequest(q), q.list[q.idx], 0,
                                  [res |-> Ok(violations), cache |-> {}]).res)

RqMatch(q, pattern, captures) ==
    RqCaptured(q, pattern, captures,
               IF captures.some
               THEN Append(q.violations,
                           [pattern |-> pattern, matched |-> captures.val])
               ELSE q.violations)

\* the keyword filter evaluator is the one the registry picks, and its loop
\* has a pattern to go through
RqThroughCache(policy) ==
    /\ policy.policy_type = "KeywordFilter"
    /\ policy.config.variant = "KeywordFilter"
    /\ policy.config.patterns # <<>>

RqAccept(r, input) ==
    /\ rq[r].pc = "idle"
    /\ rq' = [rq EXCEPT ![r] = [NoRequest EXCEPT !.pc = "evaluate",
                                                 !.content = input.content,
                                                 !.list = input.list]]
    /\ UNCHANGED <<build, key_call, rv, trip, regex_cache, regVars, evVars, rcVars, heVars, gVars>>

\* EvaluatorRegistry::evaluate for the current policy, which measures
\* execution_time; a keyword filter evaluation enters its loop
RqEvaluate(r, execution_time) ==
    /\ rq[r].pc = "evaluate"
    /\ LET q == rq[r]
           policy == q.list[q.idx]
           timed == [q EXCEPT !.times = Append(@, execution_time)]
       IN  IF RqThroughCache(policy)
           THEN /\ execution_time = 0
                /\ rq' = [rq EXCEPT ![r] = [timed EXCEPT !.pc = "get"]]
           ELSE rq' = [rq EXCEPT ![r] =
                         RqAnswered(timed,
                                    RegistryEvaluate(RegistryNew, regex_cache,
                                                     RqRequest(q), policy,
                                                     execution_time, build).res)]
    /\ UNCHANGED <<build, key_call, rv, trip, regex_cache, regVars, evVars, rcVars, heVars, gVars>>

\* keyword_filter.rs, lines 26 to 30: regex_cache.get for pattern i
RqGet(r) ==
    /\ rq[r].pc = "get"
    /\ LET q == rq[r]
           config == q.list[q.idx].config
           pattern == config.patterns[q.i]
           hit == CacheGet(regex_cache, CacheKey(pattern, config.case_sensitive))
       IN  rq' = [rq EXCEPT ![r] =
                    IF hit.some
                    THEN RqMatch(q, pattern, Captures(hit.val, q.content))
                    ELSE [q EXCEPT !.pc = "compile"]]
    /\ UNCHANGED <<build, key_call, rv, trip, regex_cache, regVars, evVars, rcVars, heVars, gVars>>

\* keyword_filter.rs, lines 32 to 40 and 59: Regex::new, whose error ends
\* the evaluation, and regex_cache.insert; raced records that the key was
\* inserted by another request since this one looked it up
RqCompile(r) ==
    /\ rq[r].pc = "compile"
    /\ LET config == rq[r].list[rq[r].idx].config
           q == [rq[r] EXCEPT !.raced =
                    @ \/ CacheGet(regex_cache,
                                  CacheKey(config.patterns[rq[r].i],
                                           config.case_sensitive)).some]
           pattern == config.patterns[q.i]
           miss == CompileMiss(regex_cache,
                               CacheKey(pattern, config.case_sensitive),
                               RegexNew(RegexPattern(pattern, config.case_sensitive)))
       IN  /\ regex_cache' = miss.cache
           /\ rq' = [rq EXCEPT ![r] =
                       IF miss.res.ok
                       THEN RqMatch(q, pattern, Captures(miss.res.val, q.content))
                       ELSE RqAnswered([q EXCEPT !.violations = <<>>, !.i = 1],
                                       miss.res)]
    /\ UNCHANGED <<build, key_call, rv, trip, regVars, evVars, rcVars, heVars, gVars>>

NextRequests ==
    \/ \E r \in Requests, input \in RqInputSet : RqAccept(r, input)
    \/ \E r \in Requests, t \in ExecTimeSet : RqEvaluate(r, t)
    \/ \E r \in Requests : RqGet(r)
    \/ \E r \in Requests : RqCompile(r)

-----------------------------------------------------------------------------
(* The active policy set on its own: what a guard started by a command     *)
(* resolves for a request (section 4.5, step 2) from the arguments that    *)
(* GuardCommand::execute hands to start_server, over a store that also     *)
(* holds a policy of another organization.                                 *)

kw_other == [Policy("kw_other", "KeywordFilter",
                    KeywordFilterConfig(<< <<"b">> >>, TRUE, "Block"), TRUE)
               EXCEPT !.organization_id = "other"]

MixedStore == <<kw_warn, kw_other, semantic, perf_log>>

ResolveStoreSet == {PolicyStore, MixedStore}

\* the texts of --policies: ids apart by "," with and without blanks, an
\* id that no policy has, an id listed twice, a trailing comma, nothing
PoliciesTextSet ==
    { NoText,
      Some(<<"kw_warn">>),
      Some(<<"perf_log", ",", "kw_warn">>),
      Some(<<"perf_log", ",", " ", "kw_warn">>),
      Some(<<" ", "semantic", " ", ",", "kw_warn", " ">>),
      Some(<<"kw_other", ",", "kw_block">>),
      Some(<<"nope", ",", "perf_log">>),
      Some(<<"kw_warn", ",", "kw_warn">>),
      Some(<<"kw_warn", ",">>),
      Some(<<>>) }

\* None of the Option<String> `organization`, an id being a string here
NoOrganization == [some |-> FALSE, val |-> ""]

ResolveCommandSet ==
    [port : {8080}, host : {"127.0.0.1"},
     organization : {NoOrganization, Some("org"), Some("other")},
     policies : PoliciesTextSet, early_exit : BOOLEAN]

NotResolved == [made |-> FALSE]

InitResolve == rv = NotResolved

\* GuardCommand::execute, and step 2 for a request of the started guard
ResolveFor(cmd, store) ==
    /\ rv' = [made |-> TRUE, cmd |-> cmd, store |-> store,
              args |-> StartServerArgs(cmd),
              active |-> ResolveActive(store, StartServerArgs(cmd))]
    /\ UNCHANGED <<build, key_call, rq, trip, regex_cache, regVars, evVars, rcVars, heVars, gVars>>

NextResolve ==
    \E cmd \in ResolveCommandSet, store \in ResolveStoreSet : ResolveFor(cmd, store)

-----------------------------------------------------------------------------
(* models.rs: PolicyResult through serde_json and back.  The enum derives  *)
(* Serialize and Deserialize with no attribute, so it is externally        *)
(* tagged: Pass is the string "Pass", the other variants an object with    *)
(* the variant's name as its one key.  A JSON value is a record of its     *)
(* kind, with its number (in tenths) or its text.                          *)

JNull == [kind |-> "null", num |-> 0, text |-> ""]
JNumber(n) == [kind |-> "number", num |-> n, text |-> ""]
JString(s) == [kind |-> "string", num |-> 0, text |-> s]
JObject(s) == [kind |-> "object", num |-> 0, text |-> s]

\* an f64: finite (in tenths), NaN, or an infinity
Finite(tenths) == [class |-> "finite", tenths |-> tenths]
NaN == [class |-> "nan", tenths |-> 0]
Infinity == [class |-> "infinite", tenths |-> 1]

\* None of an Option<serde_json::Value>
NoValue == [some |-> FALSE, val |-> JNull]

ErrorResult(message) == [tag |-> "Error", message |-> message]

ConfidenceSet == {Finite(0), Finite(9), Finite(10), NaN, Infinity}

DetailsSet == {NoValue, Some(JNull), Some(JString("d")), Some(JObject("k: 1"))}

MessageSet == {"", "m"}

PolicyResultSet ==
    {Pass}
      \cup {ErrorResult(msg) : msg \in MessageSet}
      \cup {Violation(sev, msg, c, d) : sev \in ViolationSeverity, msg \in MessageSet,
                                        c \in ConfidenceSet, d \in DetailsSet}

\* serialize_f64: a float that is not finite is written as null
SerializeF64(x) == IF x.class = "finite" THEN JNumber(x.tenths) ELSE JNull

\* Option<T>::serialize: None is null, Some(v) is v
SerializeOption(o) == IF o.some THEN o.val ELSE JNull

\* Serialize for PolicyResult
Serialize(result) ==
    CASE result.tag = "Pass" ->
            [shape |-> "string", variant |-> "Pass", severity |-> JNull,
             message |-> JNull, confidence |-> JNull, details |-> JNull]
      [] result.tag = "Violation" ->
            [shape |-> "object", variant |-> "Violation",
             severity |-> JString(result.severity),
             message |-> JString(result.message),
             confidence |-> SerializeF64(result.confidence),
             details |-> SerializeOption(result.details)]
      [] OTHER ->
            [shape |-> "object", variant |-> "Error", severity |-> JNull,
             message |-> JString(result.message), confidence |-> JNull,
             details |-> JNull]

\* Option<T>::deserialize: null is None, any other value v is Some(v)
DeserializeOption(j) == IF j.kind = "null" THEN NoValue ELSE Some(j)

\* Deserialize for PolicyResult
Deserialize(json) ==
    CASE json.shape = "string" ->
            IF json.variant = "Pass" THEN Ok(Pass)
            ELSE Err("Serialization", <<"invalid type: unit variant">>)
      [] json.variant = "Violation" ->
            IF json.severity.kind # "string"
                 \/ json.severity.text \notin ViolationSeverity
            THEN Err("Serialization", <<"unknown variant">>)
            ELSE IF json.message.kind # "string"
            THEN Err("Serialization", <<"invalid type: expected a string">>)
            ELSE IF json.confidence.kind # "number"
            THEN Err("Serialization", <<"invalid type: null, expected f64">>)
            ELSE Ok(Violation(json.severity.text, json.message.text,
                              Finite(json.confidence.num),
                              DeserializeOption(json.details)))
      [] json.variant = "Error" ->
            IF json.message.kind # "string"
            THEN Err("Serialization", <<"invalid type: expected a string">>)
            ELSE Ok(ErrorResult(json.message.text))
      [] OTHER -> Err("Serialization", <<"unknown variant">>)

NoRoundTrip == [made |-> FALSE]

InitRoundTrip == trip = NoRoundTrip

\* serde_json::to_string(&result), then serde_json::from_str of the text
RoundTrip(result) ==
    /\ trip' = [made |-> TRUE, value |-> result, json |-> Serialize(result),
              back |-> Deserialize(Serialize(result))]
    /\ UNCHANGED <<build, key_call, rq, rv, regex_cache, regVars, evVars, rcVars, heVars, gVars>>

NextRoundTrip == \E result \in PolicyResultSet : RoundTrip(result)

-----------------------------------------------------------------------------
(* get_or_compile_regex called, one call after another, with patterns that *)
(* hold ':' or end in the text of a flag                                   *)

MaxKeyCalls == 3        \* get_or_compile_regex calls in one run

\* "a", "a:", ":", "a:true", "a:false", "a:true:false", "a:false:true"
KeyPatternSet ==
    { <<"a">>,
      <<"a", ":">>,
      <<":">>,
      <<"a", ":">> \o BoolText(TRUE),
      <<"a", ":">> \o BoolText(FALSE),
      <<"a", ":">> \o BoolText(TRUE) \o <<":">> \o BoolText(FALSE),
      <<"a", ":">> \o BoolText(FALSE) \o <<":">> \o BoolText(TRUE) }

NoKeyCall == [made |-> FALSE, calls |-> 0]

InitKeys == key_call = NoKeyCall

\* get_or_compile_regex(pattern, case_sensitive)
KeyCall(pattern, case_sensitive) ==
    LET g == GetOrCompileRegex(regex_cache, pattern, case_sensitive)
    IN  /\ key_call.calls < MaxKeyCalls
        /\ key_call' = [made |-> TRUE, calls |-> key_call.calls + 1,
                        pattern |-> pattern, case_sensitive |-> case_sensitive,
                        cache |-> regex_cache, res |-> g.res,
                        compiled |-> g.compiled]
        /\ regex_cache' = g.cache
        /\ UNCHANGED <<build, rq, rv, trip, regVars, evVars, rcVars, heVars, gVars>>

NextKeys ==
    \E pattern \in KeyPatternSet, case_sensitive \in BOOLEAN :
        KeyCall(pattern, case_sensitive)

-----------------------------------------------------------------------------
vars == <<build, regex_cache, regVars, evVars, rcVars, heVars, gVars, rq, rv, trip, key_call>>

Init ==
    /\ build \in {"debug", "release"}
    /\ InitRegistry
    /\ InitCache
    /\ InitEvaluators
    /\ InitHandleEvaluate
    /\ InitGuard
    /\ InitRequests
    /\ InitResolve
    /\ InitRoundTrip
    /\ InitKeys

SpecRegistry == Init /\ [][NextRegistry]_vars
SpecKeywordFilter == Init /\ [][NextKeywordFilter]_vars
SpecRegistryMismatch == Init /\ [][NextRegistryMismatch]_vars
SpecPerformance == Init /\ [][NextPerformance]_vars
SpecCache == Init /\ [][NextCache]_vars
SpecCacheSeq == Init /\ [][NextCacheSeq]_vars
SpecHandleEvaluate == Init /\ [][NextHandleEvaluate]_vars
SpecGuard == Init /\ [][NextGuard]_vars
SpecGuardStore == Init /\ [][NextGuardStore]_vars
SpecRequests == Init /\ [][NextRequests]_vars
SpecResolve == Init /\ [][NextResolve]_vars
SpecKeywordFailing == Init /\ [][NextKeywordFailing]_vars
SpecKeys == Init /\ [][NextKeys]_vars
SpecRoundTrip == Init /\ [][NextRoundTrip]_vars

-----------------------------------------------------------------------------
(* Claims about the EvaluatorRegistry *)

Supporters(evs, policy_type) ==
    {i \in 1..Len(evs) : SupportsPolicyType(evs[i], policy_type)}

\* C6: when an evaluator claims the policy's type, evaluate invokes exactly
\* one evaluator, the one registered earliest among those that claim the type,
\* and returns exactly what that evaluator returned.
C6_EarliestSupporterEvaluates ==
    reg_call.made =>
        LET evs == reg_call.evaluators
            sup == Supporters(evs, reg_call.policy.policy_type)
        IN  sup # {} =>
              \E i \in sup :
                 /\ \A j \in sup : i <= j
                 /\ reg_invoked = <<i>>
                 /\ reg_result = EvaluatorEvaluate(evs[i], reg_call.cache,
                                    reg_call.request, reg_call.policy,
                                    reg_call.execution_time, build).res

\* a call whose type two registered evaluators claim, answered by the first
C6_Witness ==
    /\ reg_call.made
    /\ Cardinality(Supporters(reg_call.evaluators,
                              reg_call.policy.policy_type)) >= 2
    /\ Len(reg_invoked) = 1
    /\ reg_result.ok
    /\ reg_result.val.result.tag = "Violation"

\* C7: with the registry as EvaluatorRegistry::new builds it, evaluate on a
\* ContentSafety or Semantic policy invokes no evaluator and returns an error
\* that says no evaluator was found and carries the policy type; it returns
\* no EvaluationResult.
C7_UnsupportedTypeFails ==
    ( /\ reg_call.made
      /\ reg_call.evaluators = <<KeywordFilterEvaluator, PerformanceEvaluator>>
      /\ reg_call.policy.policy_type \in {"ContentSafety", "Semantic"} )
    => /\ reg_invoked = <<>>
       /\ ~reg_result.ok
       /\ reg_result.err.kind = "Evaluation"
       /\ reg_result.err.msg[1] = "No evaluator found for policy type: "
       /\ reg_result.err.msg[Len(reg_result.err.msg)] = reg_call.policy.policy_type

C7_Witness ==
    /\ reg_call.made
    /\ Len(reg_call.evaluators) = 2
    /\ reg_call.policy.policy_type = "Semantic"
    /\ ~reg_result.ok

-----------------------------------------------------------------------------
(* Claims about the regex cache *)

\* what compiling (pattern, case_sensitive) yields for a literal pattern
ExpectedRegex(pattern, case_sensitive) == [ci |-> ~case_sensitive, lit |-> pattern]

IsLiteral(pattern) ==
    \A i \in 1..Len(pattern) : pattern[i] \notin {"(", ")", "?", "{", "}"}

ValidKeys == {CacheKey(p, cs) : p \in {q \in PatternSet : IsLiteral(q)},
                                cs \in BOOLEAN}

\* C9: when calls with a valid pattern are made one after another, the calls
\* for one key make exactly one Regex::new call, in the first of them; every
\* later call returns the cached pattern.
C9_SequentialCallsCompileOnce ==
    /\ \A k \in ValidKeys :
          /\ rc_compiles[k] <= 1
          /\ rc_done[k] >= 1 => rc_compiles[k] = 1
    /\ \A w \in Callers :
          (rc_ret[w].returned /\ rc_ret[w].res.ok) =>
              \E e \in regex_cache : /\ e.key = rc_ret[w].cache_key
                                     /\ e.regex = rc_ret[w].res.val

\* three calls with one valid key have returned, after one compilation
C9_Witness ==
    \E k \in ValidKeys : rc_done[k] >= 3 /\ rc_compiles[k] = 1

\* C10: under every interleaving of callers the cache holds at most one entry
\* per key, each entry is the compiled form of its key's pattern and flag, and
\* every caller that is returned a pattern is returned that compiled form,
\* equal to the key's entry.
C10_CacheNeverCorrupted ==
    /\ \A e1 \in regex_cache, e2 \in regex_cache : e1.key = e2.key => e1 = e2
    /\ \A e \in regex_cache :
          \E p \in PatternSet, cs \in BOOLEAN :
             /\ IsLiteral(p)
             /\ e.key = p \o <<":">> \o BoolText(cs)
             /\ e.regex = ExpectedRegex(p, cs)
    /\ \A w \in Callers :
          (rc_ret[w].returned /\ rc_ret[w].res.ok) =>
             /\ rc_ret[w].res.val = ExpectedRegex(rc_ret[w].pattern,
                                                  rc_ret[w].case_sensitive)
             /\ \E e \in regex_cache : /\ e.key = rc_ret[w].cache_key
                                       /\ e.regex = rc_ret[w].res.val

\* two callers missed on the same key, both compiled and both inserted
C10_Witness ==
    \E k \in KeySet :
       /\ rc_compiles[k] = 2
       /\ \A w \in Callers : /\ rc_ret[w].returned
                             /\ rc_ret[w].cache_key = k
                             /\ rc_pc[w] = "idle"
       /\ \E e \in regex_cache : e.key = k

-----------------------------------------------------------------------------
(* Claims about handle_evaluate *)

\* C5: an evaluator call that returns an error leaves a PolicyResult::Error
\* entry for its policy in the result list, and the list has one entry for
\* each evaluator call made.
C5_FailureBecomesErrorEntry ==
    /\ Len(he_results) = Len(he_outcomes)
    /\ \A i \in 1..Len(he_outcomes) :
          ~he_outcomes[i].res.ok =>
              /\ he_results[i].policy_id = he_outcomes[i].policy_id
              /\ he_results[i].result.tag = "Error"

\* C8: no evaluator is started once the elapsed time exceeds the timeout, and
\* a run that ends with the timeout exceeded returns a Timeout failure.
C8_TimeoutAbortsEvaluation ==
    /\ he_late = 0
    /\ (he_pc = "done" /\ he_elapsed > he_args.timeout) =>
          /\ ~he_ret.res.ok
          /\ he_ret.res.err.kind = "Timeout"

-----------------------------------------------------------------------------
(* Claims about the guard pipeline *)

\* C1: with early_exit enabled on the command, a result whose action is
\* Block is the last one produced for its content: no later policy of the
\* active set is evaluated, the evaluator calls made do not exceed the
\* blocking policy's position, and a Block on the first policy means exactly
\* one evaluator call.
C1_EarlyExitStopsAtBlock ==
    (g_cmd.started /\ g_cmd.cmd.early_exit) =>
        \A i \in 1..Len(g_results) :
           g_results[i].finding = "Block" =>
              /\ Len(g_results) = i
              /\ g_idx = i + 1
              /\ g_calls <= i
              /\ i = 1 => g_calls = 1

\* a request blocked by the first of several policies, after one call
C1_Witness ==
    /\ g_cmd.started /\ g_cmd.cmd.early_exit
    /\ Len(g_active) >= 2
    /\ Len(g_results) = 1
    /\ g_results[1].finding = "Block"
    /\ g_calls = 1
    /\ g_state = "Blocked"

Precedence(results) ==
    LET found == {results[i].finding : i \in 1..Len(results)}
    IN  IF "Block" \in found THEN "Block"
        ELSE IF "Warn" \in found THEN "Warn"
        ELSE IF "Log" \in found THEN "Log"
        ELSE "Pass"

\* C2: every decision the guard makes is Block when some violated policy's
\* action is Block, else Warn when one is Warn, else Log when one is Log,
\* else Pass, in whatever order the results were produced.
C2_DecisionPrecedence ==
    g_decision.made => g_decision.decision = Precedence(g_decision.results)

\* a decision made from a Warn finding followed by a Block finding
C2_Witness ==
    /\ g_decision.made
    /\ Len(g_decision.results) = 2
    /\ g_decision.results[1].finding = "Warn"
    /\ g_decision.results[2].finding = "Block"
    /\ g_decision.decision = "Block"

\* C3: once the inbound decision is Block the request is in Blocked, with a
\* violation response, and the upstream provider has not been called.
C3_InboundBlockNeverForwards ==
    (g_inbound.made /\ g_inbound.decision = "Block") =>
        /\ g_state = "Blocked"
        /\ g_upstream = 0
        /\ g_outcome = "Violation"
        /\ g_response.kind = "violation"

C3_Witness ==
    /\ g_inbound.made
    /\ g_inbound.decision = "Block"
    /\ g_state = "Blocked"
    /\ Len(g_inbound.results) >= 1

AllowedTransitions ==
    { <<"Idle", "ReceivingRequest">>,
      <<"ReceivingRequest", "EvaluatingInbound">>,
      <<"EvaluatingInbound", "Blocked">>,
      <<"EvaluatingInbound", "Forwarding">>,
      <<"Forwarding", "EvaluatingOutbound">>,
      <<"EvaluatingOutbound", "Blocked">>,
      <<"EvaluatingOutbound", "Completed">> }

\* C4: a change of the request's state is one of Idle -> ReceivingRequest ->
\* EvaluatingInbound -> (Blocked | Forwarding), Forwarding ->
\* EvaluatingOutbound -> (Blocked | Completed); Completed is entered only
\* from a finished outbound evaluation that found no Block; no step leaves
\* Blocked or Completed.
C4_StateMachine ==
    [][ g_state' # g_state =>
          /\ <<g_state, g_state'>> \in AllowedTransitions
          /\ g_state' = "Completed" =>
                /\ g_upstream = 1
                /\ g_idx = Len(g_active) + 1
                /\ \A i \in 1..Len(g_results) : g_results[i].finding # "Block" ]_vars

\* a request completed after an outbound evaluation with findings
C4_Witness ==
    /\ g_state = "Completed"
    /\ g_outcome = "Relayed"
    /\ Len(g_decision.results) >= 1
    /\ g_decision.decision = "Warn"

-----------------------------------------------------------------------------
(* Further claims about the regex cache *)

\* C11: under every interleaving of concurrent callers, Regex::new is called
\* at most once for each key whose pattern compiles.
C11_CompiledAtMostOncePerKey ==
    \A k \in ValidKeys : rc_compiles[k] <= 1

\* msg has pattern in it
Carries(msg, pattern) ==
    \E i \in 1..(Len(msg) - Len(pattern) + 1) :
       SubSeq(msg, i, i + Len(pattern) - 1) = pattern

\* C12: a call whose pattern does not compile returns Error::Regex with the
\* pattern in its message, on the first call and on every later one; the
\* cache never holds an entry for such a key, and the failing call leaves
\* the cache as it was.
C12_InvalidPatternFails ==
    [][ /\ \A w \in Callers :
              (rc_ret'[w].returned /\ ~IsLiteral(rc_ret'[w].pattern)) =>
                  /\ ~rc_ret'[w].res.ok
                  /\ rc_ret'[w].res.err.kind = "Regex"
                  /\ Carries(rc_ret'[w].res.err.msg, rc_ret'[w].pattern)
        /\ \A e \in regex_cache' : e.key \in ValidKeys
        /\ \A w \in Callers :
              ( /\ rc_pc[w] = "compile" /\ rc_pc'[w] # "compile"
                /\ ~IsLiteral(rc_args[w].pattern) ) =>
                  /\ rc_pc'[w] = "idle"
                  /\ regex_cache' = regex_cache ]_vars

-----------------------------------------------------------------------------
(* Claims about the keyword filter evaluator *)

SameChar(c, d, case_sensitive) ==
    \/ c = d
    \/ ~case_sensitive /\ {c, d} \in {{"a", "A"}, {"b", "B"}}

\* pattern, a literal, occurs somewhere in content
ContainsText(content, pattern, case_sensitive) ==
    \E i \in 1..(Len(content) - Len(pattern) + 1) :
       \A j \in 1..Len(pattern) :
          SameChar(content[i + j - 1], pattern[j], case_sensitive)

KfCallMade == ev_call.made /\ ev_call.evaluator = "KeywordFilter"

\* C13: a keyword filter evaluation over valid patterns returns a result,
\* never an error; the result is a Violation when some configured pattern
\* occurs in the content, compared without regard to case when
\* case_sensitive is false, and Pass when none does.
C13_ViolationIffSomePatternMatches ==
    KfCallMade =>
        LET config == ev_call.policy.config
            content == ev_call.request.content
            hit == \E i \in 1..Len(config.patterns) :
                      ContainsText(content, config.patterns[i], config.case_sensitive)
        IN  /\ ev_result.ok
            /\ ev_result.val.result.tag = IF hit THEN "Violation" ELSE "Pass"

\* a Violation that only the case-insensitive comparison finds, from an
\* evaluator whose cache already held patterns
C13_Witness ==
    /\ KfCallMade
    /\ ev_call.cache # {}
    /\ ~ev_call.policy.config.case_sensitive
    /\ ev_result.ok
    /\ ev_result.val.result.tag = "Violation"
    /\ \A i \in 1..Len(ev_call.policy.config.patterns) :
          ~ContainsText(ev_call.request.content,
                        ev_call.policy.config.patterns[i], TRUE)

\* C14: the violation list of a keyword filter Violation names the
\* configured patterns that occur in the content, each once per
\* declaration and in declaration order, with a match of the pattern as the
\* matched text; the message is that list, and patterns_checked is the
\* number of configured patterns.
C14_OneEntryPerMatchingPattern ==
    (KfCallMade /\ ev_result.ok /\ ev_result.val.result.tag = "Violation") =>
        LET config == ev_call.policy.config
            content == ev_call.request.content
            Occurs(p) == ContainsText(content, p, config.case_sensitive)
            details == ev_result.val.result.details
            listed == details.violations
        IN  /\ [i \in 1..Len(listed) |-> listed[i].pattern]
                  = SelectSeq(config.patterns, Occurs)
            /\ \A i \in 1..Len(listed) :
                  /\ Len(listed[i].matched) = Len(listed[i].pattern)
                  /\ ContainsText(listed[i].matched, listed[i].pattern,
                                  config.case_sensitive)
                  /\ ContainsText(content, listed[i].matched, TRUE)
            /\ ev_result.val.result.message = listed
            /\ details.patterns_checked = Len(config.patterns)
            /\ details.case_sensitive = config.case_sensitive

\* two different patterns matched, both listed
C14_Witness ==
    /\ KfCallMade
    /\ ev_result.ok
    /\ ev_result.val.result.tag = "Violation"
    /\ Len(ev_result.val.result.details.violations) = 2
    /\ ev_result.val.result.details.violations[1].pattern
          # ev_result.val.result.details.violations[2].pattern
    /\ ev_result.val.result.details.patterns_checked = 2

-----------------------------------------------------------------------------
(* Claims about a policy whose config does not fit its type *)

MismatchCall ==
    /\ reg_call.made
    /\ reg_call.policy.config.variant # reg_call.policy.policy_type

InvalidConfigMessages ==
    { <<"Invalid policy config for keyword filter">>,
      <<"Invalid policy config for performance evaluator">> }

-----------------------------------------------------------------------------
(* Claims about the performance evaluator *)

ScoreCallMade == ev_call.made /\ ev_call.evaluator = "calculate_quality_score"

\* C16: calculate_quality_score returns a score between 0 and 1, both
\* included, for every content: the empty one, one of whitespace only, one
\* whose adjustments multiply to more than 1.
C16_ScoreWithinUnitInterval ==
    ScoreCallMade =>
        /\ ev_result.d > 0
        /\ 0 <= ev_result.n
        /\ ev_result.n <= ev_result.d

\* the empty content, whose capitals ratio is 0/0, scored 0.3
C16_Witness ==
    /\ ScoreCallMade
    /\ ev_call.content = <<>>
    /\ 10 * ev_result.n = 3 * ev_result.d

\* content on which no adjustment but the length penalty acts: no word
\* twice, no capital, no sentence mark
PlainContent(content) ==
    LET words == SplitWhitespace(content)
    IN  /\ \A i \in 1..Len(words), j \in 1..Len(words) :
              words[i] = words[j] => i = j
        /\ \A i \in 1..Len(content) : content[i] \notin {"A", "B", ".", "!", "?"}

\* the length of a content in characters
CharLen(content) == Len(content)

\* C17: the length penalty goes by the number of characters: the score of a
\* plain content is 0.3 under 10 characters, 0.7 from 10 to 49, and 1 from
\* 50 on.
C17_LengthPenaltyByCharacters ==
    (ScoreCallMade /\ PlainContent(ev_call.content)) =>
        LET chars == CharLen(ev_call.content)
        IN  /\ chars < 10 => 10 * ev_result.n = 3 * ev_result.d
            /\ (chars >= 10 /\ chars < 50) => 10 * ev_result.n = 7 * ev_result.d
            /\ chars >= 50 => ev_result.n = ev_result.d

PerfCallMade == ev_call.made /\ ev_call.evaluator = "Performance"

\* the conditions of a performance policy that a call meets, in the order
\* the evaluator tests them
FiredConditions ==
    LET config == ev_call.policy.config
        content == ev_call.request.content
        quality == IF ScoreBelow(CalculateQualityScore(content),
                                 config.min_quality_score)
                   THEN <<"quality">> ELSE <<>>
        tokens == IF /\ config.max_tokens.some
                     /\ config.max_tokens.val.hi = 0
                     /\ CountTokens(content) > config.max_tokens.val.lo
                  THEN <<"tokens">> ELSE <<>>
        time == IF ev_call.execution_time > config.max_response_time_ms
                THEN <<"time">> ELSE <<>>
    IN  quality \o tokens \o time

\* C18: a performance evaluation returns Pass when no condition fires and
\* otherwise a Violation that lists the conditions that fired, one entry
\* each; the token condition is left out when max_tokens is absent.
C18_PassIffNoConditionFires ==
    PerfCallMade =>
        /\ ev_result.ok
        /\ IF FiredConditions = <<>>
           THEN ev_result.val.result.tag = "Pass"
           ELSE /\ ev_result.val.result.tag = "Violation"
                /\ ev_result.val.result.details.violations = FiredConditions

\* C19: a performance Violation is High when the score is under 0.3 or the
\* token count is more than twice max_tokens, and Medium otherwise; with
\* max_tokens absent the token count never makes it High; the evaluation
\* returns for every u32 max_tokens.
C19_SeverityForEveryLimit ==
    (PerfCallMade /\ FiredConditions # <<>>) =>
        LET config == ev_call.policy.config
            content == ev_call.request.content
            low == ScoreBelow(CalculateQualityScore(content), 3)
            twice == /\ config.max_tokens.some
                     /\ config.max_tokens.val.hi = 0
                     /\ CountTokens(content) > 2 * config.max_tokens.val.lo
        IN  /\ ev_result.ok
            /\ ev_result.val.result.tag = "Violation"
            /\ ev_result.val.result.severity
                  = IF low \/ twice THEN "High" ELSE "Medium"

\* the outbound content of the request is being, or has been, evaluated
OutboundPhase ==
    /\ g_upstream = 1
    /\ g_state \in {"EvaluatingOutbound", "Blocked", "Completed"}

\* the states of a request whose decision has not begun
BeforeDecision == {"Idle", "ReceivingRequest"}

\* every store update of the run was made in a state of `states`
UpdatesAllIn(states) ==
    \A k \in 1..Len(g_store.log) : g_store.log[k].state \in states

\* C20: within one decision the outbound content is evaluated against the
\* policies, configs included, that were resolved for the inbound content:
\* a store update made after the decision began changes none of them, and
\* one made before it began is in the resolved set.
C20_OutboundUsesInboundSnapshot ==
    /\ OutboundPhase =>
          /\ Len(g_inbound.results) = Len(g_active)
          /\ \A i \in 1..Len(g_active) : g_inbound.results[i].policy = g_active[i]
          /\ \A i \in 1..Len(g_results) :
                g_results[i].policy = g_inbound.results[i].policy
    /\ (g_server.started /\ g_state \notin BeforeDecision) =>
          /\ UpdatesAllIn(BeforeDecision) =>
                g_active = ResolveActive(g_store.policies, g_server.args)
          /\ UpdatesAllIn({"EvaluatingInbound", "Forwarding", "EvaluatingOutbound",
                           "Blocked", "Completed"}) =>
                g_active = ResolveActive(PolicyStore, g_server.args)

\* a request completed although the store changed one of its active
\* policies between the inbound and the outbound evaluation
C20_Witness ==
    /\ g_state = "Completed"
    /\ Len(g_results) >= 1
    /\ Len(g_store.log) >= 1
    /\ g_store.log[1].state \in {"EvaluatingInbound", "Forwarding"}
    /\ ResolveActive(g_store.policies, g_server.args) # g_active

-----------------------------------------------------------------------------
(* Claims about requests served concurrently *)

\* the per-policy outcomes of a request, in the order of its results
RqOutcomes(q) == [i \in 1..Len(q.results) |-> q.results[i].result.tag]

\* the policies evaluated for a request so far are those of its list, in the
\* order of the list
InDeclarationOrder(q) ==
    /\ Len(q.results) <= Len(q.list)
    /\ \A i \in 1..Len(q.results) : q.results[i].policy = q.list[i]

SameRun(q1, q2) ==
    /\ q1.pc = "done" /\ q2.pc = "done"
    /\ q1.content = q2.content
    /\ q1.list = q2.list

\* C21: the results of a request follow the declaration order of its policy
\* list, and two runs with the same content and the same list end with the
\* same sequence of per-policy outcomes and the same decision.
C21_SameListSameOutcomes ==
    /\ \A r \in Requests : InDeclarationOrder(rq[r])
    /\ \A r1, r2 \in Requests :
          SameRun(rq[r1], rq[r2]) =>
              /\ rq[r1].panicked = rq[r2].panicked
              /\ RqOutcomes(rq[r1]) = RqOutcomes(rq[r2])
              /\ Decide(rq[r1].results) = Decide(rq[r2].results)

\* C21, for runs that measured the same times: the results of a request
\* follow the declaration order of its policy list, and two runs with the
\* same content and the same list whose evaluations measured the same
\* elapsed times end with the same per-policy outcomes and decision.
C21_SameTimesSameOutcomes ==
    /\ \A r \in Requests : InDeclarationOrder(rq[r])
    /\ \A r1, r2 \in Requests :
          (SameRun(rq[r1], rq[r2]) /\ rq[r1].times = rq[r2].times) =>
              /\ rq[r1].panicked = rq[r2].panicked
              /\ RqOutcomes(rq[r1]) = RqOutcomes(rq[r2])
              /\ Decide(rq[r1].results) = Decide(rq[r2].results)

\* two requests with the same content and list of two policies have run
\* side by side, a performance evaluation of each measuring a millisecond
C21_Witness ==
    \E r1, r2 \in Requests :
        /\ r1 # r2
        /\ SameRun(rq[r1], rq[r2])
        /\ rq[r1].times = rq[r2].times
        /\ Len(rq[r1].results) = 2 /\ Len(rq[r2].results) = 2
        /\ \E i \in 1..2 : rq[r1].times[i] = 1
        /\ \E i \in 1..2 : rq[r1].results[i].result.tag = "Violation"

-----------------------------------------------------------------------------
(* Further claims about the guard pipeline *)

\* the findings of the request, inbound and outbound, whose action is
\* `finding`
AllFindings(finding) ==
    Findings(g_inbound.results, finding) \o Findings(g_results, finding)

InSeq(e, seq) == \E i \in 1..Len(seq) : seq[i] = e

\* C22: a completed request relays the upstream content as it came; its
\* Warn findings, and nothing else, are the advisories of the response; its
\* Log findings, and nothing else, are recorded, and none is in the
\* response; a request is Blocked only by a finding whose action is Block.
C22_WarnAndLogLeaveContent ==
    /\ g_state = "Completed" =>
          /\ g_response.kind = "relayed"
          /\ g_response.content = g_content
          /\ g_content \in UpstreamContentSet
          /\ g_response.advisories = AllFindings("Warn")
          /\ g_log = AllFindings("Log")
          /\ \A i \in 1..Len(g_log) : ~InSeq(g_log[i], g_response.advisories)
    /\ g_state = "Blocked" =>
          \E i \in 1..Len(g_decision.results) :
              /\ g_decision.results[i].result.tag = "Violation"
              /\ g_decision.results[i].policy.config.action = "Block"

\* a request completed with a Warn finding and a Log finding
C22_Witness ==
    /\ g_state = "Completed"
    /\ Len(g_response.advisories) >= 1
    /\ Len(g_log) >= 1
    /\ \E i \in 1..Len(g_decision.results) :
          g_decision.results[i].finding \in {"Warn", "Log"}

-----------------------------------------------------------------------------
(* Claims about the active policy set *)

\* the ids that a text of --policies lists: its elements other than the
\* commas and the blanks
ListedIds(text) == SelectSeq(text, LAMBDA c : c \notin {",", " "})

IdsOf(policies) == [i \in 1..Len(policies) |-> policies[i].id]

KnownIn(store, ids) ==
    SelectSeq(ids, LAMBDA id : \E k \in 1..Len(store) : store[k].id = id)

\* C23: with a list of policy ids on the command the active set is the
\* policies of those ids, in the order of the list, whatever their
\* organization and whether enabled or not, and no other policy; without one
\* it is the enabled policies of the store, those of the command's
\* organization when it names one, and no disabled policy.
C23_ActiveSetIsListedOrDefault ==
    rv.made =>
        IF rv.cmd.policies.some
        THEN /\ IdsOf(rv.active) = KnownIn(rv.store, ListedIds(rv.cmd.policies.val))
             /\ \A i \in 1..Len(rv.active) : InSeq(rv.active[i], rv.store)
        ELSE /\ \A i \in 1..Len(rv.active) : rv.active[i].enabled
             /\ rv.active =
                  SelectSeq(rv.store,
                            LAMBDA pol : /\ pol.enabled
                                         /\ rv.cmd.organization.some =>
                                              pol.organization_id
                                                = rv.cmd.organization.val)

\* a list with blanks around its ids, resolved over a store in which the
\* default set of the organization is another one
C23_Witness ==
    /\ rv.made
    /\ rv.cmd.policies.some
    /\ InSeq(" ", rv.cmd.policies.val)
    /\ Len(rv.active) = 2
    /\ ~rv.active[1].enabled
    /\ rv.cmd.organization = Some("other")

-----------------------------------------------------------------------------
(* Claims about what the regex cache keeps *)

CachedKeys(cache) == {e.key : e \in cache}

\* C24: no step takes a key out of the regex cache or changes the pattern
\* compiled for it: every entry of the cache is an entry of it after the
\* step, so the set of cached keys only grows.
C24_CacheNeverEvicts ==
    [][ /\ \A e \in regex_cache : e \in regex_cache'
        /\ CachedKeys(regex_cache) \subseteq CachedKeys(regex_cache') ]_vars

\* two keys are cached, one of them inserted a second time by a caller that
\* was overtaken
C24_Witness ==
    /\ Cardinality(regex_cache) >= 2
    /\ \E k \in KeySet :
          /\ rc_compiles[k] >= 2
          /\ rc_done[k] >= 2
          /\ CacheGet(regex_cache, k).some

-----------------------------------------------------------------------------
(* Claims about the independence of concurrent requests *)

\* The request run alone: its policies evaluated one after the other through
\* a registry of its own, from an empty cache, each evaluation measuring the
\* time it measured in q.
RECURSIVE AloneFrom(_, _, _, _, _)
RECURSIVE AloneStep(_, _, _, _, _)
AloneStep(q, i, results, bld, r) ==
    IF IsPanic(r.res) THEN [results |-> results, panicked |-> TRUE]
    ELSE AloneFrom(r.cache, q, i + 1,
                   Append(results, ResultEntry(q.list[i], r.res)), bld)

AloneFrom(cache, q, i, results, bld) ==
    IF i > Len(q.list) \/ i > Len(q.times)
    THEN [results |-> results, panicked |-> FALSE]
    ELSE AloneStep(q, i, results, bld,
                   RegistryEvaluate(RegistryNew, cache, RqRequest(q), q.list[i],
                                    q.times[i], bld))

RunAlone(q, bld) == AloneFrom({}, q, 1, <<>>, bld)

IsPrefix(s, t) == Len(s) <= Len(t) /\ s = SubSeq(t, 1, Len(s))

\* C25: whatever the interleaving with the other requests, the results a
\* request has so far are the first results of the request run alone with
\* the same measured times, and a request that is over has the results and
\* the decision of that run, or ended by the same panic: the regex cache,
\* the one thing the requests share, changes no result.
C25_RequestsAreIndependent ==
    \A r \in Requests :
        /\ IsPrefix(rq[r].results, RunAlone(rq[r], build).results)
        /\ rq[r].pc = "done" =>
              /\ rq[r].results = RunAlone(rq[r], build).results
              /\ rq[r].panicked = RunAlone(rq[r], build).panicked
              /\ Decide(rq[r].results) = Decide(RunAlone(rq[r], build).results)

\* two requests are over, each with two results; one of them found, when it
\* inserted a regex, that the other had inserted the key in between
C25_Witness ==
    \E r1, r2 \in Requests :
        /\ r1 # r2
        /\ rq[r1].pc = "done" /\ rq[r2].pc = "done"
        /\ rq[r1].raced
        /\ rq[r1].list # rq[r2].list
        /\ Len(rq[r1].results) = 2 /\ Len(rq[r2].results) = 2

-----------------------------------------------------------------------------
(* Claims about PolicyResult through JSON *)

\* C26: a PolicyResult serialized and read back is a PolicyResult of the
\* same variant, and a Violation keeps its severity, message, confidence
\* and details, whatever they are.
C26_RoundTripPreservesViolation ==
    trip.made =>
        /\ trip.back.ok
        /\ trip.back.val.tag = trip.value.tag
        /\ trip.value.tag = "Violation" =>
              /\ trip.back.val.severity = trip.value.severity
              /\ trip.back.val.message = trip.value.message
              /\ trip.back.val.confidence = trip.value.confidence
              /\ trip.back.val.details = trip.value.details

-----------------------------------------------------------------------------
(* Claims about a keyword filter policy with a pattern that fails *)

\* the pattern is one Regex::new accepts, with the flag of the policy
Compiles(pattern, case_sensitive) ==
    RegexNew(RegexPattern(pattern, case_sensitive)).ok

\* the position of the first pattern of the list that does not compile,
\* 0 when every pattern compiles
FirstFailing(config) ==
    LET failing == {i \in 1..Len(config.patterns) :
                      ~Compiles(config.patterns[i], config.case_sensitive)}
    IN  IF failing = {} THEN 0
        ELSE CHOOSE i \in failing : \A j \in failing : i <= j

\* the cache keys of the patterns of the list before position k
KeysBefore(config, k) ==
    {CacheKey(config.patterns[j], config.case_sensitive) : j \in 1..(k - 1)}

\* a step that is a keyword filter evaluation of a policy with a pattern
\* that fails
KfFailingCall ==
    /\ ev_calls' = ev_calls + 1
    /\ ev_call'.evaluator = "KeywordFilter"
    /\ FirstFailing(ev_call'.policy.config) > 0

\* what such a call returns and leaves in the cache
KfFailingOutcome(config, k) ==
    /\ ~ev_result'.ok
    /\ ev_result'.err.kind = "Regex"
    /\ ev_result'
         = RegexNew(RegexPattern(config.patterns[k], config.case_sensitive))
    /\ CachedKeys(regex_cache')
         = CachedKeys(regex_cache) \cup KeysBefore(config, k)
    /\ \A e \in regex_cache : e \in regex_cache'

\* C27: when a pattern of a keyword filter policy does not compile, evaluate
\* returns the Regex error of the first such pattern and no EvaluationResult
\* (so nothing of the matches of the earlier patterns); after the call the
\* cache holds what it held before and the patterns before the failing one,
\* and nothing of the failing pattern or of the patterns after it.
C27_FailingPatternFailsThePolicy ==
    [][KfFailingCall =>
         KfFailingOutcome(ev_call'.policy.config,
                          FirstFailing(ev_call'.policy.config))]_vars

\* a call just made that failed at its second pattern, on a content the
\* first pattern occurs in, leaving the first pattern cached and the third
\* one not
C27_Witness ==
    /\ ev_call.made
    /\ ev_call.evaluator = "KeywordFilter"
    /\ FirstFailing(ev_call.policy.config) = 2
    /\ Len(ev_call.policy.config.patterns) = 3
    /\ ev_call.cache = {}
    /\ Captures(RegexNew(RegexPattern(ev_call.policy.config.patterns[1],
                                      ev_call.policy.config.case_sensitive)).val,
                ev_call.request.content).some
    /\ ~ev_result.ok
    /\ CachedKeys(regex_cache)
         = {CacheKey(ev_call.policy.config.patterns[1],
                     ev_call.policy.config.case_sensitive)}

-----------------------------------------------------------------------------
(* Claims about the cache key *)

KeyInputs == KeyPatternSet \X BOOLEAN

\* C28: the cache key of two different (pattern, case_sensitive) pairs is
\* never the same text, also when the pattern holds ':' or ends in ":true"
\* or ":false"; so every cached entry is the regex of the one pair its key
\* is made of, and a call returns the regex of its own pattern and flag.
C28_CacheKeyIsInjective ==
    /\ \A x \in KeyInputs, y \in KeyInputs :
          CacheKey(x[1], x[2]) = CacheKey(y[1], y[2]) => x = y
    /\ \A e \in regex_cache :
          \A x \in KeyInputs :
             CacheKey(x[1], x[2]) = e.key
                => e.regex = RegexNew(RegexPattern(x[1], x[2])).val
    /\ key_call.made =>
          key_call.res = RegexNew(RegexPattern(key_call.pattern,
                                               key_call.case_sensitive))

\* a call for "a", case-insensitive, that compiled although the cache held
\* "a:false" cached as case-sensitive, whose text ends in the other key's
\* flag
C28_Witness ==
    /\ key_call.made
    /\ key_call.pattern = <<"a">>
    /\ ~key_call.case_sensitive
    /\ key_call.compiled
    /\ CacheGet(key_call.cache, CacheKey(<<"a", ":">> \o BoolText(FALSE), TRUE)).some
    /\ key_call.res.ok
    /\ key_call.res.val.ci

====
